---- MODULE Spec2Model ----
(***************************************************************************)
(* A model of code-couplet's coupling engine: the range translator of      *)
(* schemaTools.ts, the per-root SchemaModel of SchemaIndex.ts (cache,      *)
(* guardIO, save with hash check), the delivery of editor events through   *)
(* SchemaIndex.delegateToModel and the schema store of schema.ts.          *)
(*                                                                         *)
(* Text is a sequence of one-character strings; "\n" is the line break.    *)
(* A position is [line, char], a range [start, end], as in types.ts; the   *)
(* editor's vscode.Position/Range carry the same two numbers under the     *)
(* names line/character, and are written with the same records here.      *)
(***************************************************************************)
EXTENDS Integers, Sequences, FiniteSets, TLC

\* ------------------------------------------------------------ bounds
\* Longest text one edit inserts.
MaxInsert == 2
\* Most editor events in one run.
MaxEvents == 1
\* Most changes in one onDidChangeTextDocument event.
MaxBatch == 2
\* Most characters typed while saves may be under way.
MaxTyped == 2
\* Most saves started in one run.
MaxTasks == 2
\* Most writes to a mapping file from outside the editor in one run.
MaxExternal == 2
\* Most edit events delivered while the root's model is being found and loaded.
MaxDelivered == 3
\* Most edit events in a run of several events.
MaxEdits == 2
\* Most link, remove and move-fix commands in one run.
MaxCommands == 3

\* ------------------------------------------------------------ text
NL == "\n"

Pos(l, c) == [line |-> l, char |-> c]

Rng(s, e) == [start |-> s, end |-> e]

IsBefore(p, q) == p.line < q.line \/ (p.line = q.line /\ p.char < q.char)

IsBeforeOrEqual(p, q) == p = q \/ IsBefore(p, q)

IsAfterOrEqual(p, q) == IsBeforeOrEqual(q, p)

\* new vscode.Range(a, b) orders its two ends.
VsRange(a, b) == IF IsBefore(b, a) THEN Rng(b, a) ELSE Rng(a, b)

schemaRangeToVscode(r) == VsRange(r.start, r.end)

\* vscode.Range.contains(other)
RangeContains(outer, inner) ==
  IsBeforeOrEqual(outer.start, inner.start) /\ IsBeforeOrEqual(inner.end, outer.end)

\* Offsets (0-based) at which the lines of a text start.
LineStarts(text) ==
  <<0>> \o [k \in 1..Cardinality({i \in 1..Len(text) : text[i] = NL}) |->
              CHOOSE i \in 1..Len(text) :
                /\ text[i] = NL
                /\ Cardinality({j \in 1..i : text[j] = NL}) = k]

LineCount(text) == Len(LineStarts(text))

\* Length of line l (0-based), its line break not counted.
LineLength(text, l) ==
  LET starts == LineStarts(text)
  IN IF l + 1 < Len(starts) THEN starts[l + 2] - 1 - starts[l + 1]
     ELSE Len(text) - starts[l + 1]

\* TextDocument.offsetAt: the position is first brought into the document
\* (validatePosition), as the editor does.
OffsetAt(text, p) ==
  LET starts == LineStarts(text)
  IN IF p.line < 0 THEN 0
     ELSE IF p.line >= Len(starts) THEN Len(text)
     ELSE LET len == LineLength(text, p.line)
              c == IF p.char < 0 THEN 0 ELSE IF p.char > len THEN len ELSE p.char
          IN starts[p.line + 1] + c

\* TextDocument.getText(range)
GetText(text, r) ==
  LET vr == VsRange(r.start, r.end)
  IN SubSeq(text, OffsetAt(text, vr.start) + 1, OffsetAt(text, vr.end))

\* The positions of a text, the end of each line included.
Positions(text) ==
  UNION {{Pos(l, c) : c \in 0..LineLength(text, l)} : l \in 0..(LineCount(text) - 1)}

\* The document after the editor replaced change.range by change.text.
ApplyChange(text, change) ==
  SubSeq(text, 1, OffsetAt(text, change.range.start)) \o change.text \o
  SubSeq(text, OffsetAt(text, change.range.end) + 1, Len(text))

\* ------------------------------------------------------------ schema
\* The source files of the project root.
UriSeq == <<"a.ts">>

Uris == {UriSeq[k] : k \in 1..Len(UriSeq)}

\* The source file that is validated, and the other file code can be pinned in.
DocUri == "a.ts"

SiblingUri == "b.ts"

\* The source files of a root that can have a mapping file in its folder.
MappedUris == <<DocUri, SiblingUri>>

\* The keys of a schema map in the order the Map iterates them: the one file of
\* a single-file root, or both files of a root with two.
MapKeys(map) == IF DOMAIN map = Uris THEN UriSeq ELSE MappedUris

\* types.ts emptySchema(); version is the literal 1 throughout and is left out.
emptySchema == [comments |-> <<>>, lineComment |-> "null"]

\* schema.ts resolveCodePath: joinPath(sourceUri, codeRelativePath). The empty
\* relative path names the source file itself; any other names its sibling.
resolveCodePath(sourceUri, comment) ==
  IF comment.codeRelativePath = "" THEN sourceUri ELSE comment.codeRelativePath

\* ------------------------------------------------------------ range translator
\* A count that sees no line break.
countNoNewLines(text) == 0

\* countNewLines(text): the number of line breaks in text.
countNewLines(text) == Cardinality({i \in 1..Len(text) : text[i] = NL})

lastLineLength(text) ==
  LET nls == {i \in 1..Len(text) : text[i] = NL}
  IN IF nls = {} THEN Len(text)
     ELSE Len(text) - (CHOOSE i \in nls : \A j \in nls : j <= i)

\* A pass that moves the start of a range on the edited line and leaves its end.
ShiftRangeStartOnly(change, sr) ==
  LET cr == change.range
      lineDelta == countNewLines(change.text) - (cr.end.line - cr.start.line)
      originalChars == IF cr.end.line = cr.start.line
                       THEN cr.end.char - cr.start.char
                       ELSE cr.end.char
      charDelta == lastLineLength(change.text) - originalChars
  IN IF sr.start.line > cr.end.line
     THEN Rng(Pos(sr.start.line + lineDelta, sr.start.char),
              Pos(sr.end.line + lineDelta, sr.end.char))
     ELSE IF sr.start.line = cr.end.line /\ sr.start.char >= cr.end.char
     THEN Rng(Pos(sr.start.line + lineDelta, sr.start.char + charDelta),
              Pos(sr.end.line + lineDelta, sr.end.char))
     ELSE sr

\* One pass of the loop of updateNonOverlappingComments over the range sr.
ShiftRange(change, sr) ==
  LET cr == change.range
      lineDelta == countNewLines(change.text) - (cr.end.line - cr.start.line)
      originalChars == IF cr.end.line = cr.start.line
                       THEN cr.end.char - cr.start.char
                       ELSE cr.end.char
      charDelta == lastLineLength(change.text) - originalChars
  IN IF sr.start.line > cr.end.line
     THEN Rng(Pos(sr.start.line + lineDelta, sr.start.char),
              Pos(sr.end.line + lineDelta, sr.end.char))
     ELSE IF sr.start.line = cr.end.line /\ sr.start.char >= cr.end.char
     THEN Rng(Pos(sr.start.line + lineDelta, sr.start.char + charDelta),
              Pos(sr.end.line + lineDelta,
                  IF sr.end.line = sr.start.line
                  THEN sr.end.char + charDelta ELSE sr.end.char))
     ELSE sr

\* updateNonOverlappingComments(change, schemaRanges): every range of the list
\* goes through the loop, and wasUpdated is set at the end of each pass.
updateNonOverlappingComments(change, schemaRanges) ==
  [ranges |-> [i \in 1..Len(schemaRanges) |-> ShiftRange(change, schemaRanges[i])],
   wasUpdated |-> Len(schemaRanges) > 0]

\* findOverlappingRanges: the places in the list of the ranges it keeps.
findOverlappingRanges(change, schemaRanges) ==
  LET cr == change.range
  IN {i \in 1..Len(schemaRanges) :
        LET sr == schemaRanges[i]
            startOverlaps == IsBeforeOrEqual(sr.start, cr.start) /\ IsAfterOrEqual(sr.end, cr.start)
            endOverlaps == IsBeforeOrEqual(sr.start, cr.end) /\ IsAfterOrEqual(sr.end, cr.end)
        IN startOverlaps \/ endOverlaps}

\* One pass of the loop of updateOverlappingComments: [range, touched].
TrimRange(change, sr) ==
  LET cr == change.range
      isDeleted == RangeContains(cr, schemaRangeToVscode(sr))
      s1 == IF IsBeforeOrEqual(cr.start, sr.start) THEN cr.end ELSE sr.start
      e1 == IF IsAfterOrEqual(cr.end, sr.end) THEN cr.start ELSE sr.end
  IN IF isDeleted
     THEN [range |-> Rng(cr.start, cr.start), touched |-> TRUE]
     ELSE [range |-> Rng(s1, e1),
           touched |-> IsBeforeOrEqual(cr.start, sr.start) \/ IsAfterOrEqual(cr.end, sr.end)]

\* updateOverlappingComments(change, overlappingRanges): the ranges at the places
\* `overlapping` are the list it is given; they are updated in place.
updateOverlappingComments(change, schemaRanges, overlapping) ==
  [ranges |-> [i \in 1..Len(schemaRanges) |->
                 IF i \in overlapping THEN TrimRange(change, schemaRanges[i]).range
                 ELSE schemaRanges[i]],
   wasUpdated |-> \E i \in overlapping : TrimRange(change, schemaRanges[i]).touched]

\* ------------------------------------------------------------ store
\* The JSON values a mapping file can hold. An object is a function from its
\* keys to values; the order of the keys is not kept.
JNum(n) == [num |-> n]

JStr(x) == [str |-> x]

JBool(b) == [bool |-> b]

JNull == [null |-> TRUE]

JArr(items) == [arr |-> items]

JObj(fields) == [obj |-> fields]

IsJ(kind, j) == kind \in DOMAIN j

\* JSON.stringify of a Position, a Range, a comment and a File.
JPosition(p) == JObj([line |-> JNum(p.line), char |-> JNum(p.char)])

JRange(r) == JObj([start |-> JPosition(r.start), end |-> JPosition(r.end)])

\* JSON.stringify of a comment of the first format of types.ts, which had no
\* id and no codeRelativePath.
JCommentV0(c) ==
  JObj([k \in {"commentValue", "commentRange", "codeRange", "codeValue"} |->
          IF k \in {"commentRange", "codeRange"} THEN JRange(c[k]) ELSE JStr(c[k])])

\* A comment is written with every property it has: the six of CommentV1,
\* isTracked when the link command made it, and whatever else it was read with.
JComment(c) ==
  JObj([k \in DOMAIN c |->
          IF k \in {"commentRange", "codeRange"} THEN JRange(c[k])
          ELSE IF k = "id" THEN JNum(c[k])
          ELSE IF k \in {"commentValue", "codeValue", "codeRelativePath"} THEN JStr(c[k])
          ELSE IF k = "isTracked" THEN JBool(c[k])
          ELSE c[k]])

\* The schema of the model keeps configuration.lineComment as lineComment, the
\* string "null" standing for null, and leaves out version, which is always 1.
JFile(schema) ==
  JObj([k \in {"version", "configuration", "comments"} \cup
              (DOMAIN schema \ {"comments", "lineComment"}) |->
          IF k = "version" THEN JNum(1)
          ELSE IF k = "configuration"
          THEN JObj([lineComment |-> IF schema.lineComment = "null" THEN JNull
                                     ELSE JStr(schema.lineComment)])
          ELSE IF k = "comments"
          THEN JArr([i \in 1..Len(schema.comments) |-> JComment(schema.comments[i])])
          ELSE schema[k]])

\* The io-ts codecs of types.ts: t.type asks for its own properties and lets
\* any other property through.
HasProps(j, props) == IsJ("obj", j) /\ props \subseteq DOMAIN j.obj

PositionIs(j) ==
  /\ HasProps(j, {"line", "char"})
  /\ IsJ("num", j.obj.line)
  /\ IsJ("num", j.obj.char)

RangeIs(j) ==
  /\ HasProps(j, {"start", "end"})
  /\ PositionIs(j.obj.start)
  /\ PositionIs(j.obj.end)

CommentV1Is(j) ==
  /\ HasProps(j, {"commentValue", "commentRange", "codeRelativePath", "codeRange",
                  "codeValue", "id"})
  /\ IsJ("str", j.obj.commentValue)
  /\ RangeIs(j.obj.commentRange)
  /\ IsJ("str", j.obj.codeRelativePath)
  /\ RangeIs(j.obj.codeRange)
  /\ IsJ("str", j.obj.codeValue)
  /\ IsJ("num", j.obj.id)

ConfigurationV1Is(j) ==
  /\ HasProps(j, {"lineComment"})
  /\ (IsJ("null", j.obj.lineComment) \/ IsJ("str", j.obj.lineComment))

FileV1Is(j) ==
  /\ HasProps(j, {"version", "configuration", "comments"})
  /\ j.obj.version = JNum(1)
  /\ ConfigurationV1Is(j.obj.configuration)
  /\ IsJ("arr", j.obj.comments)
  /\ \A i \in 1..Len(j.obj.comments.arr) : CommentV1Is(j.obj.comments.arr[i])

\* validation.right: the value File.decode hands back for a document it accepts.
PositionOf(j) == Pos(j.obj.line.num, j.obj.char.num)

RangeOf(j) == Rng(PositionOf(j.obj.start), PositionOf(j.obj.end))

CommentOf(j) ==
  [k \in DOMAIN j.obj |->
     IF k \in {"commentRange", "codeRange"} THEN RangeOf(j.obj[k])
     ELSE IF k = "id" THEN j.obj[k].num
     ELSE IF k \in {"commentValue", "codeValue", "codeRelativePath"} THEN j.obj[k].str
     ELSE IF k = "isTracked" /\ IsJ("bool", j.obj[k]) THEN j.obj[k].bool
     ELSE j.obj[k]]

FileOf(j) ==
  [k \in {"comments", "lineComment"} \cup
         (DOMAIN j.obj \ {"version", "configuration", "comments"}) |->
     IF k = "comments"
     THEN [i \in 1..Len(j.obj.comments.arr) |-> CommentOf(j.obj.comments.arr[i])]
     ELSE IF k = "lineComment"
     THEN (IF IsJ("null", j.obj.configuration.obj.lineComment) THEN "null"
           ELSE j.obj.configuration.obj.lineComment.str)
     ELSE j.obj[k]]

\* Buffer.from(JSON.stringify(schema, null, 2)): the bytes of a mapping file
\* are the JSON document they spell.
Serialize(schema) == [json |-> JFile(schema)]

\* File.decode(JSON.parse(contents)) of bytes that decode.
Parse(bytes) == FileOf(bytes.json)

\* No mapping file at the path.
NoFile == [missing |-> TRUE]

Exists(bytes) == "missing" \notin DOMAIN bytes

\* crypto.createHash("md5").update(contents).digest("hex"): equal contents, equal
\* digests; different contents are taken to have different digests.
Md5(bytes) == [sentinel |-> FALSE, md5 |-> bytes]

\* schemaTools.ts EMPTY_SCHEMA_HASH = "0", which is no md5 digest.
EMPTY_SCHEMA_HASH == [sentinel |-> TRUE, md5 |-> Serialize(emptySchema)]

\* ------------------------------------------------------------ state
VARIABLES
  doc,        \* doc[u]: the text of source document u in the editor
  docDirty,   \* docDirty[u]: the editor's TextDocument.isDirty
  disk,       \* disk[u]: the bytes of u's mapping file, or NoFile
  schemaMap,  \* SchemaModel.schemaMap: u -> {schema, hash, hasUnsavedChanges}
  nEvents,    \* edit events handled so far
  last,       \* the last onDidChangeTextDocument: what it saw and what it returned
  tasks,      \* tasks[t]: the t-th save started, where it stands, its locals
  ioSerializationPromises,  \* u -> the task whose promise is stored under u, 0: no key
  nExternal,  \* writes to mapping files made outside the editor so far
  watchPending,   \* watchPending[u]: the file watcher has a change of u's mapping file to report
  saveRootCache,  \* saveRootCache.has(u) of schema.ts
  schemaModels,   \* SchemaIndex.schemaModels for the one root: the promise and who awaits it
  inbox,      \* the edit events delivered through delegateToModel, in delivery order
  applied,    \* the places in inbox of the events whose handler ran, in the order they ran
  call,       \* a call of a library function made on its own: its name and arguments
  result      \* what that call returned or threw, Pending until it has been made

vars == <<doc, docDirty, disk, schemaMap, nEvents, last, tasks,
          ioSerializationPromises, nExternal, watchPending, saveRootCache,
          schemaModels, inbox, applied, call, result>>

editVars == <<doc, docDirty, nEvents, last>>

storeVars == <<tasks, ioSerializationPromises, nExternal, watchPending>>

orderVars == <<saveRootCache, schemaModels, inbox, applied>>

libVars == <<call, result>>

\* A source file with no entry in schemaMap.
Absent == [absent |-> TRUE]

IsAbsent(entry) == "absent" \in DOMAIN entry

Entry(schema, hash, dirty) ==
  [schema |-> schema, hash |-> hash, hasUnsavedChanges |-> dirty]

\* An entry made with the digest of an empty schema's bytes for its hash.
getSchemaByUriDigest(map, u) ==
  IF IsAbsent(map[u])
  THEN [map EXCEPT ![u] = Entry(emptySchema, [sentinel |-> FALSE, md5 |-> [json |-> emptySchema]], FALSE)]
  ELSE map

\* SchemaModel.getSchemaByUri: the map after the call, which enters an empty
\* schema for a file that has none.
getSchemaByUri(map, u) ==
  IF IsAbsent(map[u])
  THEN [map EXCEPT ![u] = Entry(emptySchema, EMPTY_SCHEMA_HASH, FALSE)]
  ELSE map

\* ------------------------------------------------------------ tracked ranges
\* A tracked range is an object inside a comment: it is named by the file that
\* stores the comment, the comment's place in that file, and its side.
Ref(u, i, side) == [uri |-> u, idx |-> i, side |-> side]

CommentsOf(map, u) == IF IsAbsent(map[u]) THEN <<>> ELSE map[u].schema.comments

\* getCommentReferencesByFile(fileUri), as the ranges' names.
getCommentReferencesByFile(map, fileUri) ==
  [i \in 1..Len(CommentsOf(map, fileUri)) |-> Ref(fileUri, i, "commentRange")]

\* The comments of sourceUri whose code lies in fileUri, in the file's order.
RECURSIVE CodeRefsIn(_, _, _, _)
CodeRefsIn(map, sourceUri, fileUri, i) ==
  IF i > Len(CommentsOf(map, sourceUri)) THEN <<>>
  ELSE (IF resolveCodePath(sourceUri, CommentsOf(map, sourceUri)[i]) = fileUri
        THEN <<Ref(sourceUri, i, "codeRange")>> ELSE <<>>)
       \o CodeRefsIn(map, sourceUri, fileUri, i + 1)

\* getCodeReferencesByFile(fileUri) without excludeSelf: every file of the map.
RECURSIVE getCodeReferencesByFile(_, _, _)
getCodeReferencesByFile(map, fileUri, k) ==
  IF k > Len(MapKeys(map)) THEN <<>>
  ELSE CodeRefsIn(map, MapKeys(map)[k], fileUri, 1)
       \o getCodeReferencesByFile(map, fileUri, k + 1)

getSchemaRangesByFile(map, fileUri) ==
  getCommentReferencesByFile(map, fileUri) \o getCodeReferencesByFile(map, fileUri, 1)

Deref(map, ref) == map[ref.uri].schema.comments[ref.idx][ref.side]

\* The map after the range objects named by refs took the values ranges.
WriteRanges(map, refs, ranges) ==
  LET Val(u, i, side, old) ==
        IF \E k \in 1..Len(refs) : refs[k] = Ref(u, i, side)
        THEN ranges[CHOOSE k \in 1..Len(refs) : refs[k] = Ref(u, i, side)]
        ELSE old
  IN [u \in DOMAIN map |->
        IF IsAbsent(map[u]) THEN map[u]
        ELSE [map[u] EXCEPT !.schema.comments =
                [i \in 1..Len(@) |->
                   [@[i] EXCEPT !.commentRange = Val(u, i, "commentRange", @),
                                !.codeRange = Val(u, i, "codeRange", @)]]]]

\* The body of the loop of updateSchemaFromPendingChanges for one change. The
\* two updates stand to the right of `wasUpdated ||`, so each is called only
\* when wasUpdated is still false.
ApplyOneChange(acc, uri, change) ==
  LET refs == getSchemaRangesByFile(acc.map, uri)
      schemaComments == [k \in 1..Len(refs) |-> Deref(acc.map, refs[k])]
      schemaRangesOfInterest == findOverlappingRanges(change, schemaComments)
      shifted == IF acc.wasUpdated
                 THEN [ranges |-> schemaComments, wasUpdated |-> TRUE]
                 ELSE updateNonOverlappingComments(change, schemaComments)
      trimmed == IF shifted.wasUpdated
                 THEN shifted
                 ELSE updateOverlappingComments(change, shifted.ranges, schemaRangesOfInterest)
  IN [map |-> WriteRanges(acc.map, refs, trimmed.ranges), wasUpdated |-> trimmed.wasUpdated]

RECURSIVE FoldChanges(_, _, _, _)
FoldChanges(acc, uri, changes, k) ==
  IF k > Len(changes) THEN acc
  ELSE FoldChanges(ApplyOneChange(acc, uri, changes[k]), uri, changes, k + 1)

\* SchemaModel.updateSchemaFromPendingChanges(uri, changes): [map, wasUpdated].
updateSchemaFromPendingChanges(map, uri, changes) ==
  FoldChanges([map |-> map, wasUpdated |-> FALSE], uri, changes, 1)

\* SchemaModel.onDidChangeTextDocument(event): the map it leaves, and the
\* wasUpdated it read.
onDidChangeTextDocument(map, uri, changes) ==
  LET res == updateSchemaFromPendingChanges(map, uri, changes)
      marked == getSchemaByUri(res.map, uri)
  IN [map |-> IF res.wasUpdated
               THEN [marked EXCEPT ![uri].hasUnsavedChanges = TRUE]
               ELSE res.map,
      wasUpdated |-> res.wasUpdated]

\* The document after the editor applied the changes of one event, in order.
RECURSIVE ApplyChanges(_, _, _)
ApplyChanges(text, changes, k) ==
  IF k > Len(changes) THEN text
  ELSE ApplyChanges(ApplyChange(text, changes[k]), changes, k + 1)

\* The editor changes document uri, which is dirty from then on.
EditorChange(uri, changes) ==
  /\ doc' = [doc EXCEPT ![uri] = ApplyChanges(doc[uri], changes, 1)]
  /\ docDirty' = [docDirty EXCEPT ![uri] = TRUE]

\* ------------------------------------------------------------ inputs
\* The document every run starts from: two lines, no character twice.
InitialText == <<"a", "b", NL, "c", "d">>

\* The texts an edit inserts: up to MaxInsert characters, "x" or a line break.
InsertTexts == UNION {[1..n -> {"x", NL}] : n \in 0..MaxInsert}

Ranges(text) ==
  LET ps == Positions(text)
  IN {r \in {Rng(s, e) : s \in ps, e \in ps} : IsBeforeOrEqual(r.start, r.end)}

\* The single changes the editor can report on a text: a range of it replaced
\* by a text, one of the two not empty.
Edits(text) ==
  {c \in {[range |-> r, text |-> t] : r \in Ranges(text), t \in InsertTexts} :
     c.range.start # c.range.end \/ c.text # <<>>}

\* Insertions of one character.
Insertions(text) ==
  {c \in Edits(text) : c.range.start = c.range.end /\ Len(c.text) = 1}

\* The events of n changes, each change made on the text the earlier ones left.
RECURSIVE InsertionBatches(_, _)
InsertionBatches(text, n) ==
  IF n = 0 THEN {<<>>}
  ELSE UNION {{<<c>> \o rest : rest \in InsertionBatches(ApplyChange(text, c), n - 1)} :
                c \in Insertions(text)}

\* A comment pinned on the text: its values are the text under its ranges.
Comment(id, text, commentRange, codeRange) ==
  [id |-> id,
   commentRange |-> commentRange, commentValue |-> GetText(text, commentRange),
   codeRange |-> codeRange, codeValue |-> GetText(text, codeRange),
   codeRelativePath |-> ""]

\* The schemas a run starts with: no comment, or one comment whose comment side
\* is any non-empty range of the text and whose code side is its second line.
InitialSchemas ==
  {emptySchema} \cup
  {[comments |-> <<Comment(0, InitialText, r, Rng(Pos(1, 0), Pos(1, 2)))>>,
    lineComment |-> "//"] :
     r \in {q \in Ranges(InitialText) : q.start # q.end}}

\* SchemaIndex.loadExistingSchemas: the map a root's model is built with holds
\* what the mapping files hold.
LoadedEntry(bytes) ==
  IF Exists(bytes) THEN Entry(Parse(bytes), Md5(bytes), FALSE) ELSE Absent

NoEvent == [uri |-> "", doc |-> <<>>, map |-> <<>>, changes |-> <<>>, wasUpdated |-> FALSE]

\* A task slot no save has taken.
IdleTask ==
  [kind |-> "none", uri |-> "", pc |-> "idle", pred |-> 0,
   seen |-> EMPTY_SCHEMA_HASH, contents |-> NoFile, afterConflict |-> FALSE,
   returned |-> "none"]

Tasks == 1..MaxTasks

\* The promise of the root's model: not yet asked for, pending, or resolved.
NoModel == [state |-> "none", waiters |-> <<>>]

ReadyModel == [state |-> "ready", waiters |-> <<>>]

\* No library call is examined on its own.
NoCall == [fn |-> "none"]

Pending == [pending |-> TRUE]

\* The mapping files on disk when the extension starts.
InitDisk(schemas) ==
  /\ doc = [u \in Uris |-> InitialText]
  /\ docDirty = [u \in Uris |-> FALSE]
  /\ disk \in [Uris -> {NoFile} \cup {Serialize(f) : f \in schemas \ {emptySchema}}]
  /\ nEvents = 0
  /\ last = NoEvent
  /\ tasks = [t \in Tasks |-> IdleTask]
  /\ ioSerializationPromises = [u \in Uris |-> 0]
  /\ nExternal = 0
  /\ watchPending = [u \in Uris |-> FALSE]
  /\ inbox = <<>>
  /\ applied = <<>>

\* The root of every file is known and the root's model has been loaded.
InitWith(schemas) ==
  /\ InitDisk(schemas)
  /\ schemaMap = [u \in Uris |-> LoadedEntry(disk[u])]
  /\ saveRootCache = [u \in Uris |-> TRUE]
  /\ schemaModels = ReadyModel
  /\ call = NoCall
  /\ result = Pending

\* ------------------------------------------------------------ range translator runs
\* An edit of document u reaches the loaded model: the handler runs at once.
EditEvent(u, changes) ==
  LET res == onDidChangeTextDocument(schemaMap, u, changes)
  IN /\ nEvents' = nEvents + 1
     /\ EditorChange(u, changes)
     /\ schemaMap' = res.map
     /\ last' = [uri |-> u, doc |-> doc[u], map |-> schemaMap,
                 changes |-> changes, wasUpdated |-> res.wasUpdated]
     /\ UNCHANGED <<disk, storeVars, orderVars, libVars>>

\* One edit per event.
NextEdit ==
  /\ nEvents < MaxEvents
  /\ \E u \in Uris : \E c \in Edits(doc[u]) : EditEvent(u, <<c>>)

SpecEdit == InitWith(InitialSchemas) /\ [][NextEdit]_vars

\* Several edits in one event.
NextBatch ==
  /\ nEvents < MaxEvents
  /\ \E u \in Uris : \E n \in 2..MaxBatch : \E cs \in InsertionBatches(doc[u], n) :
       EditEvent(u, cs)

SpecBatch == InitWith(InitialSchemas) /\ [][NextBatch]_vars

\* ------------------------------------------------------------ saves
\* A read that takes every file for a missing one.
DiskHashOfNothing(bytes) == EMPTY_SCHEMA_HASH

\* loadSchemaOrEmpty(...).hash: the digest of the file's contents, or
\* EMPTY_SCHEMA_HASH when there is no file.
DiskHash(bytes) == IF Exists(bytes) THEN Md5(bytes) ELSE EMPTY_SCHEMA_HASH

\* A test that lets every save through.
HashChangedNever(checkHash, lastSeenHash, currentHash) == FALSE

\* The test of saveSchemaByUri: params.checkHash && lastSeenHash !== currentHash.
HashChanged(checkHash, lastSeenHash, currentHash) ==
  checkHash /\ lastSeenHash # currentHash

\* Some slot is free, and the lowest free one is taken next.
HasFreeTask == \E t \in Tasks : tasks[t].kind = "none"


FreeTask == CHOOSE t \in Tasks : tasks[t].kind = "none" /\ \A s \in 1..(t - 1) : tasks[s].kind # "none"

\* A save for u has failed on the hash check.
Conflicted(u) == \E t \in Tasks : tasks[t].uri = u /\ tasks[t].pc = "conflict"

\* The function onDidSaveTextDocument hands to guardIO, up to its first await:
\* it saves when the file holds unsaved changes, and publishes diagnostics.
SaveHandlerBody(map, u) ==
  LET entered == getSchemaByUri(map, u)
  IN [map |-> entered,
      pc |-> IF entered[u].hasUnsavedChanges THEN "load" ELSE "publish"]

\* Task t's promise has settled. guardIO's finally removes the key when the
\* promise is still the one stored; the task chained on it by
\* existingPromise.then(fn) runs fn when t fulfilled and is rejected, without
\* running fn, when t was rejected.
RECURSIVE Settle(_, _, _)
Settle(st, t, fulfilled) ==
  LET u == st.tasks[t].uri
      next == {s \in Tasks : st.tasks[s].pc = "queued" /\ st.tasks[s].pred = t}
      cleared == [st EXCEPT !.promises[u] = IF @ = t THEN 0 ELSE @]
  IN IF next = {} THEN cleared
     ELSE LET s == CHOOSE s \in next : TRUE
              body == SaveHandlerBody(st.map, u)
          IN IF fulfilled
             THEN [cleared EXCEPT !.tasks[s].pc = body.pc, !.tasks[s].pred = 0, !.map = body.map]
             ELSE Settle([cleared EXCEPT !.tasks[s].pc = "skipped", !.tasks[s].pred = 0], s, FALSE)

\* The locals of a save are gone once it is over.
Forget(task, pc) ==
  [task EXCEPT !.pc = pc, !.seen = EMPTY_SCHEMA_HASH, !.contents = NoFile]

\* What the caller of the operation gets when its save is over. A command
\* awaits saveSchemaByUri, which rethrows (errorWrapperStrict), so its own
\* promise settles as the save did. onDidSaveTextDocument neither awaits nor
\* returns the promise of guardIO: its caller got a fulfilled promise when the
\* handler was called, and nothing after that.
Returned(task, fulfilled) ==
  IF task.kind = "save" THEN task
  ELSE [task EXCEPT !.returned = IF fulfilled THEN "fulfilled" ELSE "rejected"]

\* Task t ends, fulfilled or rejected.
Finish(t, map, fulfilled) ==
  LET st == Settle([tasks |-> [tasks EXCEPT ![t] =
                                 Returned(Forget(@, IF fulfilled THEN "done" ELSE "conflict"),
                                          fulfilled)],
                    map |-> map,
                    promises |-> ioSerializationPromises],
                   t, fulfilled)
  IN /\ tasks' = st.tasks
     /\ schemaMap' = st.map
     /\ ioSerializationPromises' = st.promises

\* A guard that finds no promise stored under any key.
existingPromiseResolved(promises, key) == 0

\* guardIO's existingPromise: the promise stored under the key, 0 standing for
\* Promise.resolve() when none is stored.
existingPromise(promises, key) == promises[key]

\* SchemaModel.onDidSaveTextDocument(doc): the editor has written document u;
\* the handler's function goes through guardIO(u, ...), which runs it now when
\* no promise is stored under u and chains it on the stored promise otherwise.
OnDidSaveTextDocument(u) ==
  /\ HasFreeTask
  /\ LET t == FreeTask
         tail == existingPromise(ioSerializationPromises, u)
         body == SaveHandlerBody(schemaMap, u)
         task == [IdleTask EXCEPT !.kind = "save", !.uri = u,
                                  !.afterConflict = Conflicted(u),
                                  !.returned = "fulfilled"]
     IN /\ tasks' = [tasks EXCEPT ![t] =
                       IF tail = 0 THEN [task EXCEPT !.pc = body.pc]
                       ELSE [task EXCEPT !.pc = "queued", !.pred = tail]]
        /\ schemaMap' = IF tail = 0 THEN body.map ELSE schemaMap
        /\ ioSerializationPromises' = [ioSerializationPromises EXCEPT ![u] = t]
  /\ docDirty' = [docDirty EXCEPT ![u] = FALSE]
  /\ UNCHANGED <<doc, disk, nEvents, last, nExternal, watchPending, orderVars, libVars>>

\* findIndexOfMatchingRanges(schema, a, b): the first comment whose
\* commentRange is a and whose codeRange is b, 0 for none.
findIndexOfMatchingRanges(schema, a, b) ==
  LET hits == {i \in 1..Len(schema.comments) :
                 /\ schemaRangeToVscode(schema.comments[i].commentRange) = a
                 /\ schemaRangeToVscode(schema.comments[i].codeRange) = b}
  IN IF hits = {} THEN 0 ELSE CHOOSE i \in hits : \A j \in hits : i <= j

\* An id taken from the number of comments.
nextIdByCount(schema) == Len(schema.comments)

\* nextId(schema): one more than the largest id, 0 for no comment.
nextId(schema) ==
  IF schema.comments = <<>> THEN 0
  ELSE 1 + CHOOSE m \in {schema.comments[i].id : i \in 1..Len(schema.comments)} :
             \A i \in 1..Len(schema.comments) : schema.comments[i].id <= m

\* The schema commitNewRangeToMap leaves in the cache before it saves: the
\* comment is appended, or the values of the matching comment are refreshed.
\* The call passes (schema, codeRange, commentRange).
LinkedSchema(schema, text, commentRange, codeRange) ==
  LET existingIndex == findIndexOfMatchingRanges(schema, codeRange, commentRange)
      configured == [schema EXCEPT !.lineComment = "//"]
  IN IF existingIndex = 0
     THEN [configured EXCEPT !.comments =
             Append(@, Comment(nextId(schema), text, commentRange, codeRange))]
     ELSE [configured EXCEPT
             !.comments[existingIndex].commentValue = GetText(text, commentRange),
             !.comments[existingIndex].codeValue = GetText(text, codeRange)]

\* Commands.commitNewRangeToMap(editor, config, commentRange, codeRange): refused
\* on a dirty document; it changes the cached schema in place and then calls
\* saveSchemaByUri, outside guardIO.
CommitNewRangeToMap(u, commentRange, codeRange) ==
  /\ HasFreeTask
  /\ ~docDirty[u]
  /\ LET t == FreeTask
         entered == getSchemaByUri(schemaMap, u)
     IN /\ tasks' = [tasks EXCEPT ![t] =
                       [IdleTask EXCEPT !.kind = "link", !.uri = u, !.pc = "load",
                                        !.afterConflict = Conflicted(u),
                                        !.returned = "pending"]]
        /\ schemaMap' = [entered EXCEPT ![u].schema =
                           LinkedSchema(@, doc[u], commentRange, codeRange)]
  /\ UNCHANGED <<doc, docDirty, last, disk, ioSerializationPromises, nExternal,
                 watchPending, orderVars, libVars>>

\* saveSchemaByUri, first await: loadSchemaOrEmpty reads the mapping file.
LoadSchemaOrEmpty(t) ==
  /\ tasks[t].pc = "load"
  /\ tasks' = [tasks EXCEPT ![t].pc = "check", ![t].seen = DiskHash(disk[tasks[t].uri])]
  /\ UNCHANGED <<editVars, disk, schemaMap, ioSerializationPromises, nExternal,
                 watchPending, orderVars, libVars>>

\* saveSchemaByUri after the read: it throws when the file's hash is not the
\* one the cache last saw; else saveSchema turns the schema into bytes and
\* starts writing them. Every caller passes checkHash: true.
CheckHash(t) ==
  LET u == tasks[t].uri
      entered == getSchemaByUri(schemaMap, u)
  IN /\ tasks[t].pc = "check"
     /\ IF HashChanged(TRUE, entered[u].hash, tasks[t].seen)
        THEN Finish(t, entered, FALSE)
        ELSE /\ tasks' = [tasks EXCEPT ![t].pc = "write",
                                       ![t].contents = Serialize(entered[u].schema)]
             /\ schemaMap' = entered
             /\ UNCHANGED ioSerializationPromises
     /\ UNCHANGED <<editVars, disk, nExternal, watchPending, orderVars, libVars>>

\* fs.writeFile(saveUri, contents) takes effect.
WriteFile(t) ==
  LET u == tasks[t].uri
  IN /\ tasks[t].pc = "write"
     /\ disk' = [disk EXCEPT ![u] = tasks[t].contents]
     /\ watchPending' = [watchPending EXCEPT ![u] = TRUE]
     /\ tasks' = [tasks EXCEPT ![t].pc = "written"]
     /\ UNCHANGED <<editVars, schemaMap, ioSerializationPromises, nExternal, orderVars, libVars>>

\* saveSchemaByUri after the write: schemaMap.set(uri, {schema, hash: newHash,
\* hasUnsavedChanges: false}), schema being the object the cache holds.
SetSaved(t) ==
  LET u == tasks[t].uri
  IN /\ tasks[t].pc = "written"
     /\ schemaMap' = [schemaMap EXCEPT ![u] =
                        Entry(schemaMap[u].schema, Md5(tasks[t].contents), FALSE)]
     /\ tasks' = [tasks EXCEPT ![t].pc = "publish"]
     /\ UNCHANGED <<editVars, disk, ioSerializationPromises, nExternal, watchPending,
                    orderVars, libVars>>

\* The caller's last await, publishDiagnostics, returns and the caller ends.
PublishDiagnostics(t) ==
  /\ tasks[t].pc = "publish"
  /\ Finish(t, schemaMap, TRUE)
  /\ UNCHANGED <<editVars, disk, nExternal, watchPending, orderVars, libVars>>

\* Another program writes u's mapping file.
ExternalWrite(u, bytes) ==
  /\ nExternal < MaxExternal
  /\ bytes # disk[u]
  /\ nExternal' = nExternal + 1
  /\ disk' = [disk EXCEPT ![u] = bytes]
  /\ watchPending' = [watchPending EXCEPT ![u] = TRUE]
  /\ UNCHANGED <<editVars, schemaMap, tasks, ioSerializationPromises, orderVars, libVars>>

\* The file watcher reports the change. The constructor registers the
\* prototype methods unbound (watcher.onDidChange(this.onSchemaFileChange)),
\* so the call has no SchemaModel for `this`: it throws on its first use of
\* `this`, before it reads the file or the cache.
OnSchemaFileChange(u) ==
  /\ watchPending[u]
  /\ watchPending' = [watchPending EXCEPT ![u] = FALSE]
  /\ UNCHANGED <<editVars, disk, schemaMap, tasks, ioSerializationPromises,
                 nExternal, orderVars, libVars>>

\* The schema of the runs with saves: one comment on the first line's text.
PinnedSchema ==
  [comments |-> <<Comment(0, InitialText, Rng(Pos(0, 0), Pos(0, 2)), Rng(Pos(1, 0), Pos(1, 2)))>>,
   lineComment |-> "//"]

\* What another program writes: the pinned schema, or one with a second comment.
ExternalSchemas ==
  {PinnedSchema,
   [PinnedSchema EXCEPT !.comments =
      Append(@, Comment(1, InitialText, Rng(Pos(0, 1), Pos(0, 2)), Rng(Pos(1, 1), Pos(1, 2))))]}

\* The edits of the runs with saves: a character typed at the start of line 0.
TypedEdits == {[range |-> Rng(Pos(0, 0), Pos(0, 0)), text |-> <<"x">>]}

\* The selections the link command is run on.
LinkSelections == {[commentRange |-> Rng(Pos(0, 0), Pos(0, 1)), codeRange |-> Rng(Pos(1, 0), Pos(1, 1))]}

\* The characters typed into a text: an "x" at any place.
Typed(text) == {c \in Insertions(text) : c.text = <<"x">>}

\* An edit while saves may be under way.
TypeEvent(u, changes) ==
  /\ nEvents' = nEvents + 1
  /\ EditorChange(u, changes)
  /\ schemaMap' = onDidChangeTextDocument(schemaMap, u, changes).map
  /\ UNCHANGED <<last, disk, storeVars, orderVars, libVars>>

\* The steps of the extension alone.
NextQuiet ==
  \/ \E u \in Uris : OnDidSaveTextDocument(u)
  \/ \E u \in Uris : \E sel \in LinkSelections :
       CommitNewRangeToMap(u, sel.commentRange, sel.codeRange) /\ UNCHANGED nEvents
  \/ \E t \in Tasks : LoadSchemaOrEmpty(t)
  \/ \E t \in Tasks : CheckHash(t)
  \/ \E t \in Tasks : WriteFile(t)
  \/ \E t \in Tasks : SetSaved(t)
  \/ \E t \in Tasks : PublishDiagnostics(t)
  \/ \E u \in Uris : OnSchemaFileChange(u)
  \/ nEvents < MaxTyped /\ \E u \in Uris : \E c \in TypedEdits : TypeEvent(u, <<c>>)

SpecQuiet == InitWith({emptySchema, PinnedSchema}) /\ [][NextQuiet]_vars

\* The extension, and other programs writing the mapping files.
NextStore ==
  \/ NextQuiet
  \/ \E u \in Uris : \E f \in ExternalSchemas : ExternalWrite(u, Serialize(f))

SpecStore == InitWith({emptySchema, PinnedSchema}) /\ [][NextStore]_vars

\* ------------------------------------------------------------ event delivery
\* SchemaIndex.getSchemaRoot once findSaveRoot has answered, for the event at
\* place k of inbox: the first caller creates the model's promise; the handler
\* runs as soon as the promise is resolved.
GetSchemaRoot(st, k) ==
  IF st.models.state = "ready"
  THEN [st EXCEPT !.map = onDidChangeTextDocument(@, st.inbox[k].uri, st.inbox[k].changes).map,
                  !.inbox[k].stage = "applied",
                  !.applied = Append(@, k)]
  ELSE [st EXCEPT !.models = [state |-> "loading", waiters |-> Append(@.waiters, k)],
                  !.inbox[k].stage = "awaitModel"]

\* The handlers awaiting the model's promise run in the order they awaited it.
RECURSIVE RunWaiters(_, _, _)
RunWaiters(st, waiters, i) ==
  IF i > Len(waiters) THEN st
  ELSE RunWaiters(GetSchemaRoot(st, waiters[i]), waiters, i + 1)

OrderState == [map |-> schemaMap, models |-> schemaModels, inbox |-> inbox, applied |-> applied]

SetOrderState(st) ==
  /\ schemaMap' = st.map
  /\ schemaModels' = st.models
  /\ inbox' = st.inbox
  /\ applied' = st.applied

\* The editor changes document u and delivers the event to the function
\* delegateToModel returned, which awaits getSchemaRoot(uri) before it calls
\* the model's handler. findSaveRoot answers from saveRootCache when it has
\* the path, and starts its search of the file system when it has not.
DeliverEdit(u, changes) ==
  LET k == Len(inbox) + 1
      queued == [OrderState EXCEPT !.inbox =
                   Append(@, [uri |-> u, changes |-> changes, stage |-> "findRoot"])]
  IN /\ k <= MaxDelivered
     /\ EditorChange(u, changes)
     /\ SetOrderState(IF saveRootCache[u] THEN GetSchemaRoot(queued, k) ELSE queued)
     /\ UNCHANGED <<nEvents, last, disk, storeVars, saveRootCache, libVars>>

\* findSaveRoot's search for the event at place k ends: it enters the root in
\* saveRootCache and getSchemaRoot goes on.
FindRootDone(k) ==
  /\ inbox[k].stage = "findRoot"
  /\ saveRootCache' = [saveRootCache EXCEPT ![inbox[k].uri] = TRUE]
  /\ SetOrderState(GetSchemaRoot(OrderState, k))
  /\ UNCHANGED <<editVars, disk, storeVars, libVars>>

\* The promise getSchemaRoot created resolves: loadExistingSchemas has read
\* the mapping files into the new model's schemaMap.
ModelLoaded ==
  /\ schemaModels.state = "loading"
  /\ SetOrderState(RunWaiters([OrderState EXCEPT
                                 !.map = [u \in Uris |-> LoadedEntry(disk[u])],
                                 !.models = ReadyModel],
                              schemaModels.waiters, 1))
  /\ UNCHANGED <<editVars, disk, storeVars, saveRootCache, libVars>>

\* The extension has just been activated: no root is known, no model loaded.
InitOrder ==
  /\ InitDisk({emptySchema, PinnedSchema})
  /\ schemaMap = [u \in Uris |-> Absent]
  /\ saveRootCache = [u \in Uris |-> FALSE]
  /\ schemaModels = NoModel
  /\ call = NoCall
  /\ result = Pending

NextOrder ==
  \/ \E u \in Uris : \E c \in Typed(doc[u]) : DeliverEdit(u, <<c>>)
  \/ \E k \in 1..Len(inbox) : FindRootDone(k)
  \/ ModelLoaded

SpecOrder == InitOrder /\ [][NextOrder]_vars

\* ------------------------------------------------------------ validator
\* ErrorType of validate.ts.
CommentMismatch == 1

CodeMismatch == 2

BothMismatch == 3

\* vscode-languageserver-textdocument offsetAt: a character past the end of its
\* line is brought back to the start of the next line.
NodeOffsetAt(text, p) ==
  LET starts == LineStarts(text)
  IN IF p.line >= Len(starts) THEN Len(text)
     ELSE IF p.line < 0 THEN 0
     ELSE LET lineOffset == starts[p.line + 1]
              nextLineOffset == IF p.line + 1 < Len(starts) THEN starts[p.line + 2]
                                ELSE Len(text)
              o == lineOffset + p.char
          IN IF o > nextLineOffset THEN nextLineOffset
             ELSE IF o < lineOffset THEN lineOffset ELSE o

\* doc.getText(convertRangeToVS(range)): substring(start, end), which swaps its
\* two offsets when they come in the wrong order.
NodeGetText(text, r) ==
  LET a == NodeOffsetAt(text, r.start)
      b == NodeOffsetAt(text, r.end)
  IN IF a <= b THEN SubSeq(text, a + 1, b) ELSE SubSeq(text, b + 1, a)

\* The offset of the last occurrence in place of the first.
IndexOfLast(text, value) ==
  LET hits == {i \in 0..(Len(text) - Len(value)) :
                 SubSeq(text, i + 1, i + Len(value)) = value}
  IN IF hits = {} THEN -1 ELSE CHOOSE i \in hits : \A j \in hits : j <= i

\* String.indexOf(value): the offset of the first occurrence, -1 when none.
IndexOf(text, value) ==
  LET hits == {i \in 0..(Len(text) - Len(value)) :
                 SubSeq(text, i + 1, i + Len(value)) = value}
  IN IF hits = {} THEN -1 ELSE CHOOSE i \in hits : \A j \in hits : i <= j

\* TextDocument.positionAt(offset)
PositionAt(text, offset) ==
  LET starts == LineStarts(text)
      o == IF offset < 0 THEN 0 ELSE IF offset > Len(text) THEN Len(text) ELSE offset
      l == CHOOSE k \in 1..Len(starts) :
             starts[k] <= o /\ (k = Len(starts) \/ starts[k + 1] > o)
  IN Pos(l - 1, o - starts[l])

\* A finding without a moveFix.
NoFix == [none |-> TRUE]

\* makeFix in place of its spread: the comment it is given takes the new range.
makeFixInPlace(cur, typ, whichText, whichIndex) ==
  LET whichValue == IF typ = "comment" THEN cur.commentValue ELSE cur.codeValue
      range == Rng(PositionAt(whichText, whichIndex),
                   PositionAt(whichText, whichIndex + Len(whichValue)))
      moved == IF typ = "comment" THEN [cur EXCEPT !.commentRange = range]
               ELSE [cur EXCEPT !.codeRange = range]
  IN [fix |-> moved, cur |-> moved]

\* makeFix(cur, typ): {...cur, [typ + "Range"]: the range of the occurrence at
\* whichIndex}, a new object; cur is what the call leaves of the comment given.
makeFix(cur, typ, whichText, whichIndex) ==
  LET whichValue == IF typ = "comment" THEN cur.commentValue ELSE cur.codeValue
      range == Rng(PositionAt(whichText, whichIndex),
                   PositionAt(whichText, whichIndex + Len(whichValue)))
  IN [fix |-> IF typ = "comment" THEN [cur EXCEPT !.commentRange = range]
              ELSE [cur EXCEPT !.codeRange = range],
      cur |-> cur]

\* The error validate picks with the two sides swapped.
ErrorTypeSwapped(commentMatches, codeMatches) ==
  IF ~commentMatches /\ codeMatches THEN CodeMismatch
  ELSE IF commentMatches /\ ~codeMatches THEN CommentMismatch
  ELSE BothMismatch

\* "Pick which error to report": the error of a comment with a side that does
\* not match.
ErrorTypeOf(commentMatches, codeMatches) ==
  IF ~commentMatches /\ codeMatches THEN CommentMismatch
  ELSE IF commentMatches /\ ~codeMatches THEN CodeMismatch
  ELSE BothMismatch

\* doc.getText(range) of the document validate is given. The extension hands
\* it an editor document behind vscodeDocumentToNode, whose getText is the
\* editor's; the library's own documents answer as NodeGetText does.
DocGetText(host, text, r) ==
  IF host = "editor" THEN GetText(text, r) ELSE NodeGetText(text, r)

\* The end of one pass of the loop of validate: the finding pushed for the
\* comment, with the fix of its type when the moved text was found.
PushedFinding(uri, comment, commentText, codeText,
              commentMovedNewIndex, codeMovedNewIndex, commentFix, codeFix, bothFix) ==
  LET codeUri == resolveCodePath(uri, comment)
      makeError(errorType, moveFix) ==
        [commentId |-> comment.id,
         commentUriString |-> uri,
         commentRange |-> comment.commentRange,
         errorType |-> errorType,
         codeLocation |-> [uriString |-> codeUri, range |-> comment.codeRange],
         actual |-> [comment |-> commentText, code |-> codeText],
         expected |-> [comment |-> comment.commentValue, code |-> comment.codeValue],
         moveFix |-> moveFix]
      commentMatches == commentText = comment.commentValue
      codeMatches == codeText = comment.codeValue
      errorType == ErrorTypeOf(commentMatches, codeMatches)
      moved == IF errorType = CommentMismatch THEN commentMovedNewIndex # -1
               ELSE IF errorType = CodeMismatch THEN codeMovedNewIndex # -1
               ELSE commentMovedNewIndex # -1 /\ codeMovedNewIndex # -1
      made == IF errorType = CommentMismatch THEN commentFix
              ELSE IF errorType = CodeMismatch THEN codeFix
              ELSE [fix |-> bothFix.fix, cur |-> commentFix.cur]
  IN IF commentMatches /\ codeMatches
     THEN [errors |-> <<>>, comment |-> comment]
     ELSE IF moved
     THEN [errors |-> <<makeError(errorType, made.fix)>>, comment |-> made.cur]
     ELSE [errors |-> <<makeError(errorType, NoFix)>>, comment |-> comment]

\* The fixes of one pass, made from the places the stored values were found at.
LocatedComment(uri, text, codeDocText, comment, commentText, codeText,
               commentMovedNewIndex, codeMovedNewIndex) ==
  PushedFinding(uri, comment, commentText, codeText,
                commentMovedNewIndex, codeMovedNewIndex,
                makeFix(comment, "comment", text, commentMovedNewIndex),
                makeFix(comment, "code", codeDocText, codeMovedNewIndex),
                makeFix(makeFix(comment, "comment", text, commentMovedNewIndex).fix,
                        "code", codeDocText, codeMovedNewIndex))

\* The search of one pass: a side that does not match is looked for in the
\* whole text of its document.
ComparedComment(uri, text, codeDocText, comment, commentText, codeText) ==
  LocatedComment(uri, text, codeDocText, comment, commentText, codeText,
                 IF commentText = comment.commentValue THEN -1
                 ELSE IndexOf(text, comment.commentValue),
                 IF codeText = comment.codeValue THEN -1
                 ELSE IndexOf(codeDocText, comment.codeValue))

\* One pass of the loop of validate over a comment whose code document was
\* read: the findings it pushes and the comment object it leaves. The two
\* texts are read first; the code side is read with the document's own getText
\* when the code lies in the document, and from a library document otherwise.
ValidateCommentIn(host, uri, text, codeDocText, comment) ==
  ComparedComment(uri, text, codeDocText, comment,
                  DocGetText(host, text, comment.commentRange),
                  IF resolveCodePath(uri, comment) = uri
                  THEN DocGetText(host, codeDocText, comment.codeRange)
                  ELSE NodeGetText(codeDocText, comment.codeRange))

\* The loop of validate from the comment at place i on. fs.readFile of a code
\* document that does not exist rejects, and validate with it.
RECURSIVE ValidateFromIn(_, _, _, _, _, _)
ValidateFromIn(host, acc, uri, text, files, i) ==
  IF i > Len(acc.schema.comments) THEN acc
  ELSE LET comment == acc.schema.comments[i]
           codeUri == resolveCodePath(uri, comment)
       IN IF codeUri # uri /\ ~Exists(files[codeUri])
          THEN [threw |-> "ENOENT", schema |-> acc.schema]
          ELSE LET pass == ValidateCommentIn(host, uri, text,
                             IF codeUri = uri THEN text ELSE files[codeUri].text, comment)
               IN ValidateFromIn(host,
                                 [errors |-> acc.errors \o pass.errors,
                                  schema |-> [acc.schema EXCEPT !.comments[i] = pass.comment]],
                                 uri, text, files, i + 1)

\* validate(doc, schema): the findings it resolves with, or what it rejects
\* with, and the schema object as the call leaves it.
validateIn(host, uri, text, files, schema) ==
  ValidateFromIn(host, [errors |-> <<>>, schema |-> schema], uri, text, files, 1)

\* The loop body, the loop and validate for a document of the library.
ValidateComment(uri, text, codeDocText, comment) ==
  ValidateCommentIn("node", uri, text, codeDocText, comment)

ValidateFrom(acc, uri, text, files, i) == ValidateFromIn("node", acc, uri, text, files, i)

validate(uri, text, files, schema) == validateIn("node", uri, text, files, schema)

\* getDiagnostics(doc, schema) of the extension: validate(vscodeDocumentToNode(doc),
\* schema) for a document of the editor.
getDiagnostics(uri, text, files, schema) == validateIn("editor", uri, text, files, schema)

Threw(res) == "threw" \in DOMAIN res

\* A source file on disk with the text it holds.
TextFile(text) == [text |-> text]

\* The texts a document can have one edit after the pins were made.
EditedTexts == {InitialText} \cup {ApplyChange(InitialText, c) : c \in Edits(InitialText)}

\* The ranges a pin is made on: the selections of the text that are not empty.
PinRanges == {r \in Ranges(InitialText) : r.start # r.end}

\* A comment whose code side was pinned in the sibling file.
CommentAcross(id, text, commentRange, codeText, codeRange) ==
  [Comment(id, text, commentRange, codeRange) EXCEPT
     !.codeValue = GetText(codeText, codeRange), !.codeRelativePath = SiblingUri]

SchemaOf(comments) == [comments |-> comments, lineComment |-> "//"]

FirstLine == Rng(Pos(0, 0), Pos(0, 2))

SecondLine == Rng(Pos(1, 0), Pos(1, 2))

\* The calls of validate: a schema pinned on InitialText, validated against an
\* edited text. The schema has one comment with both sides in the document,
\* or one comment with its code in the sibling file, or two comments.
ValidateCalls ==
  LET Call(text, other, comments) ==
        [fn |-> "validate", uri |-> DocUri, text |-> text,
         files |-> [u \in {SiblingUri} |-> other], schema |-> SchemaOf(comments)]
      within == {Call(text, NoFile, <<Comment(0, InitialText, r, q)>>) :
                   text \in EditedTexts, r \in PinRanges, q \in PinRanges}
      across == {Call(text, other, <<CommentAcross(0, InitialText, FirstLine, InitialText, q)>>) :
                   text \in {InitialText, <<"x">> \o InitialText},
                   other \in {NoFile} \cup {TextFile(t) : t \in EditedTexts},
                   q \in PinRanges}
      two == {Call(text, other, <<Comment(0, InitialText, FirstLine, SecondLine),
                                  CommentAcross(1, InitialText, SecondLine, InitialText, FirstLine)>>) :
                text \in EditedTexts, other \in {NoFile, TextFile(InitialText), TextFile(<<"x">> \o InitialText)}}
  IN within \cup across \cup two

\* The program at rest, and one library call about to be made.
InitCall(calls) ==
  /\ InitDisk({emptySchema})
  /\ schemaMap = [u \in Uris |-> LoadedEntry(disk[u])]
  /\ saveRootCache = [u \in Uris |-> TRUE]
  /\ schemaModels = ReadyModel
  /\ call \in calls
  /\ result = Pending

IsPending == "pending" \in DOMAIN result

ProgramVars == <<doc, docDirty, disk, schemaMap, nEvents, last, tasks,
                 ioSerializationPromises, nExternal, watchPending, orderVars>>

\* validate is called with the document and the schema of the call.
Validate ==
  /\ IsPending
  /\ call.fn = "validate"
  /\ result' = validate(call.uri, call.text, call.files, call.schema)
  /\ UNCHANGED <<call, ProgramVars>>

NextValidate == Validate

SpecValidate == InitCall(ValidateCalls) /\ [][NextValidate]_vars

\* ------------------------------------------------------------ schema store calls
\* Bytes that are no JSON text: JSON.parse throws on them.
Garbage == [garbage |-> TRUE]

\* loadSchema returned null.
Null == [isNull |-> TRUE]

\* loadSchema(saveRoot, sourceFilePath) on the bytes at the file's storage path.
loadSchema(bytes) ==
  IF ~Exists(bytes) THEN Null
  ELSE IF ~IsJ("json", bytes) THEN [threw |-> "SyntaxError"]
  ELSE IF ~FileV1Is(bytes.json) THEN [threw |-> "Could not decode schema"]
  ELSE [schema |-> FileOf(bytes.json), hash |-> Md5(bytes)]

\* The Files of the spec: comments with ids 0, 1, .., ranges in order, the six
\* properties of a comment, a line comment or none.
ValidFiles ==
  LET one == {<<Comment(0, InitialText, r, q)>> : r \in PinRanges, q \in PinRanges}
      two == {<<Comment(0, InitialText, r, SecondLine),
                CommentAcross(1, InitialText, FirstLine, InitialText, r)>> : r \in PinRanges}
  IN {[comments |-> cs, lineComment |-> lc] :
        cs \in {<<>>} \cup one \cup two, lc \in {"null", "//"}}

\* An object without one of its keys, and with one key set.
Without(j, key) == JObj([k \in DOMAIN j.obj \ {key} |-> j.obj[k]])

With(j, key, value) ==
  JObj([k \in DOMAIN j.obj \cup {key} |-> IF k = key THEN value ELSE j.obj[k]])

\* The documents a mapping file can hold when loadSchema is called on its own:
\* the pinned schema as saved, and that document with one thing changed.
StoredDocuments ==
  LET file == JFile(PinnedSchema)
      comment == file.obj.comments.arr[1]
      range == comment.obj.commentRange
      position == range.obj.start
      WithComment(c) == With(file, "comments", JArr(<<c>>))
      WithRange(r) == WithComment(With(comment, "commentRange", r))
      WithStart(q) == WithRange(With(range, "start", q))
      missing == {Without(file, k) : k \in DOMAIN file.obj}
                 \cup {WithComment(Without(comment, k)) : k \in DOMAIN comment.obj}
                 \cup {WithRange(Without(range, k)) : k \in DOMAIN range.obj}
                 \cup {WithStart(Without(position, k)) : k \in DOMAIN position.obj}
                 \cup {With(file, "configuration", JObj(<<>>))}
      unknown == {With(file, "author", JStr("me")),
                  With(file, "configuration",
                       With(file.obj.configuration, "blockComment", JNull)),
                  WithComment(With(comment, "isTracked", JBool(TRUE))),
                  WithComment(With(comment, "note", JStr("x"))),
                  WithRange(With(range, "middle", position)),
                  WithStart(With(position, "offset", JNum(0)))}
      version == {With(file, "version", v) : v \in {JNum(0), JNum(2), JStr("1"), JNull}}
      ranges == {WithStart(With(position, "line", v)) : v \in {JStr("0"), JNull, JNum(-1)}}
                \cup {WithRange(JNull), WithRange(JArr(<<>>)),
                      WithRange(With(range, "start", range.obj.end)),
                      WithComment(With(comment, "codeRange",
                                       JRange(Rng(Pos(1, 2), Pos(1, 0)))))}
      types == {With(file, "comments", JNull), With(file, "comments", comment),
                WithComment(With(comment, "id", JStr("0"))),
                WithComment(With(comment, "commentValue", JNull)),
                WithComment(JNull), JNull, JArr(<<>>)}
  IN {[json |-> j] : j \in {file, JFile(emptySchema)} \cup missing \cup unknown
                            \cup version \cup ranges \cup types}
     \cup {Garbage}

\* The store's functions called on their own: loadSchema on what the file
\* holds, or saveSchema of a File followed by loadSchema of the same path.
StoreCalls ==
  {[fn |-> "loadSchema", uri |-> u] : u \in Uris}
  \cup {[fn |-> "saveSchema", uri |-> u, schema |-> f] : u \in Uris, f \in ValidFiles}

InitStoreCall ==
  /\ doc = [u \in Uris |-> InitialText]
  /\ docDirty = [u \in Uris |-> FALSE]
  /\ disk \in [Uris -> {NoFile} \cup StoredDocuments]
  /\ schemaMap = [u \in Uris |-> Absent]
  /\ nEvents = 0
  /\ last = NoEvent
  /\ tasks = [t \in Tasks |-> IdleTask]
  /\ ioSerializationPromises = [u \in Uris |-> 0]
  /\ nExternal = 0
  /\ watchPending = [u \in Uris |-> FALSE]
  /\ inbox = <<>>
  /\ applied = <<>>
  /\ saveRootCache = [u \in Uris |-> TRUE]
  /\ schemaModels = NoModel
  /\ call \in StoreCalls
  /\ result = Pending
  /\ call.fn = "saveSchema" => disk[call.uri] \in {NoFile, Garbage, Serialize(PinnedSchema)}

StoreVarsButDisk == <<doc, docDirty, schemaMap, nEvents, last, tasks,
                      ioSerializationPromises, nExternal, watchPending, orderVars>>

\* saveSchema(saveRoot, sourceFilePath, schema): writes the file and returns
\* the hash of what it wrote.
SaveSchema ==
  /\ IsPending
  /\ call.fn = "saveSchema"
  /\ disk' = [disk EXCEPT ![call.uri] = Serialize(call.schema)]
  /\ result' = [saved |-> TRUE, hash |-> Md5(Serialize(call.schema))]
  /\ UNCHANGED <<call, StoreVarsButDisk>>

IsSaved == "saved" \in DOMAIN result

\* loadSchema(saveRoot, sourceFilePath), called first or after the save.
LoadSchema ==
  /\ \/ call.fn = "loadSchema" /\ IsPending
     \/ call.fn = "saveSchema" /\ IsSaved
  /\ result' = loadSchema(disk[call.uri])
  /\ UNCHANGED <<call, disk, StoreVarsButDisk>>

NextStoreCall == SaveSchema \/ LoadSchema

SpecStoreCall == InitStoreCall /\ [][NextStoreCall]_vars

\* ------------------------------------------------------------ storage paths
\* A path is the sequence of its characters.
PATH_TRANSFORM_FRAGMENT == <<"c", "C", "C", "c">>

KNOWN_FOLDER_NAME == <<".", "c", "c", "_", "m", "a", "p", "p", "i", "n", "g", "s">>

JsonSuffix == <<".", "j", "s", "o", "n">>

Slash == <<"/">>

\* String.slice(n)
Slice(str, n) == SubSeq(str, n + 1, Len(str))

StartsWithAt(str, pat, i) ==
  i + Len(pat) <= Len(str) /\ SubSeq(str, i + 1, i + Len(pat)) = pat

\* String.lastIndexOf(pat), -1 when pat does not occur.
LastIndexOf(str, pat) ==
  LET hits == {i \in 0..Len(str) : StartsWithAt(str, pat, i)}
  IN IF hits = {} THEN -1 ELSE CHOOSE i \in hits : \A j \in hits : j <= i

\* String.replace(/pat/g, rep): the matches are taken from left to right and do
\* not overlap.
RECURSIVE ReplaceAll(_, _, _)
ReplaceAll(str, pat, rep) ==
  IF str = <<>> THEN <<>>
  ELSE IF StartsWithAt(str, pat, 0) THEN rep \o ReplaceAll(Slice(str, Len(pat)), pat, rep)
  ELSE <<Head(str)>> \o ReplaceAll(Tail(str), pat, rep)

\* String.replace(/\.json$/, "")
StripJson(str) ==
  IF Len(str) >= Len(JsonSuffix) /\ StartsWithAt(str, JsonSuffix, Len(str) - Len(JsonSuffix))
  THEN SubSeq(str, 1, Len(str) - Len(JsonSuffix))
  ELSE str

\* The segments of a path: what stands between its slashes.
RECURSIVE Segments(_)
Segments(str) ==
  LET cut == {i \in 1..Len(str) : str[i] = "/"}
  IN IF cut = {} THEN <<str>>
     ELSE LET i == CHOOSE k \in cut : \A j \in cut : k <= j
          IN <<SubSeq(str, 1, i - 1)>> \o Segments(Slice(str, i))

\* posix normalize of an absolute path, on its segments: empty and "." segments
\* go, ".." takes the segment before it.
RECURSIVE NormalizeSegments(_, _)
NormalizeSegments(done, rest) ==
  IF rest = <<>> THEN done
  ELSE IF Head(rest) = <<>> \/ Head(rest) = <<".">> THEN NormalizeSegments(done, Tail(rest))
  ELSE IF Head(rest) = <<".", ".">>
  THEN NormalizeSegments(IF done = <<>> THEN done ELSE SubSeq(done, 1, Len(done) - 1),
                         Tail(rest))
  ELSE NormalizeSegments(Append(done, Head(rest)), Tail(rest))

RECURSIVE JoinSegments(_)
JoinSegments(segs) ==
  IF segs = <<>> THEN <<>> ELSE Slash \o Head(segs) \o JoinSegments(Tail(segs))

\* posix.normalize of an absolute path; a trailing slash is kept.
Normalize(str) ==
  LET body == JoinSegments(NormalizeSegments(<<>>, Segments(str)))
  IN IF body = <<>> THEN Slash
     ELSE IF str[Len(str)] = "/" THEN body \o Slash ELSE body

\* Utils.joinPath(uri, ...paths) on the path of the uri: posix.join.
RECURSIVE JoinPath(_, _)
JoinPath(path, paths) ==
  IF paths = <<>> THEN Normalize(path)
  ELSE JoinPath(IF Head(paths) = <<>> THEN path ELSE path \o Slash \o Head(paths),
                Tail(paths))

\* Utils.dirname(uri) on the path of the uri.
Dirname(path) ==
  IF path = <<>> \/ path = Slash THEN path
  ELSE LET trimmed == IF path[Len(path)] = "/" THEN SubSeq(path, 1, Len(path) - 1)
                      ELSE path
           cut == LastIndexOf(trimmed, Slash)
       IN IF cut <= 0 THEN Slash ELSE SubSeq(trimmed, 1, cut)

\* buildSchemaPath(saveRoot, sourceURI) with a sourceURI: it cuts as many
\* characters off the source path as the root's path has, and one more.
buildSchemaPath(saveRoot, sourcePath) ==
  LET relative == Slice(sourcePath, Len(saveRoot) + 1)
      transformedSourcePath == ReplaceAll(relative, Slash, PATH_TRANSFORM_FRAGMENT)
                               \o JsonSuffix
  IN JoinPath(saveRoot, <<KNOWN_FOLDER_NAME, transformedSourcePath>>)

\* schemaFileUriToSourceUri(schemaFileUri)
schemaFileUriToSourceUri(schemaFilePath) ==
  LET sourcePath ==
        ReplaceAll(StripJson(Slice(schemaFilePath,
                                   Len(KNOWN_FOLDER_NAME)
                                   + LastIndexOf(schemaFilePath, KNOWN_FOLDER_NAME) + 1)),
                   PATH_TRANSFORM_FRAGMENT, Slash)
      saveRoot == Dirname(Dirname(schemaFilePath))
  IN JoinPath(saveRoot, <<sourcePath>>)

\* The roots of the runs: a folder, a folder in a folder, the file system's root.
SaveRoots == {<<"/", "r">>, <<"/", "w", "/", "p">>, Slash}

\* The names of files and folders: plain ones, and ones that hold the fragment,
\* the mapping folder's name or the suffix of a mapping file.
SegmentNames ==
  {<<"a", ".", "t", "s">>, <<"s", "r", "c">>, <<"c", "C", "C", "c">>, <<"a", "c", "C", "C", "c", "b">>, <<".", "c", "c", "_", "m", "a", "p", "p", "i", "n", "g", "s">>, <<"m", ".", "j", "s", "o", "n">>}

\* The source paths under a root, one or two names deep.
PathsUnder(root) ==
  LET base == IF root = Slash THEN <<>> ELSE root
  IN {base \o Slash \o n : n \in SegmentNames}
     \cup {base \o Slash \o m \o Slash \o n : m \in SegmentNames, n \in SegmentNames}

\* sourcePath lies under saveRoot.
IsUnder(saveRoot, sourcePath) ==
  LET base == IF saveRoot = Slash THEN <<>> ELSE saveRoot
  IN Len(sourcePath) > Len(base) + 1 /\ StartsWithAt(sourcePath, base \o Slash, 0)

PathCalls ==
  {[fn |-> "buildSchemaPath", saveRoot |-> r, sourcePath |-> q] :
     r \in SaveRoots, q \in UNION {PathsUnder(o) : o \in SaveRoots}}

\* buildSchemaPath is called with the root and the source of the call.
BuildSchemaPath ==
  /\ IsPending
  /\ call.fn = "buildSchemaPath"
  /\ result' = [schemaPath |-> buildSchemaPath(call.saveRoot, call.sourcePath)]
  /\ UNCHANGED <<call, ProgramVars>>

IsBuilt == "schemaPath" \in DOMAIN result

\* schemaFileUriToSourceUri is called with the storage path that was built.
SchemaFileUriToSourceUri ==
  /\ call.fn = "buildSchemaPath"
  /\ IsBuilt
  /\ result' = [sourcePath |-> schemaFileUriToSourceUri(result.schemaPath)]
  /\ UNCHANGED <<call, ProgramVars>>

NextPath == BuildSchemaPath \/ SchemaFileUriToSourceUri

SpecPath == InitCall(PathCalls) /\ [][NextPath]_vars

\* ------------------------------------------------------------ loading a root
\* loadSchemaOrEmpty(saveRoot, sourceFileUri) on the bytes of the mapping file.
loadSchemaOrEmpty(bytes) ==
  LET currentSchema == loadSchema(bytes)
  IN IF Threw(currentSchema) THEN currentSchema
     ELSE IF currentSchema = Null
     THEN [schema |-> emptySchema, hash |-> EMPTY_SCHEMA_HASH]
     ELSE currentSchema

\* The loop of SchemaIndex.loadExistingSchemas from the k-th file of the
\* folder on: eStrict(loadSchemaOrEmpty) throws what loadSchemaOrEmpty
\* throws, and the loop has no catch.
RECURSIVE LoadFrom(_, _, _)
LoadFrom(map, files, k) ==
  IF k > Len(MappedUris) THEN [schemaMap |-> map]
  ELSE LET u == MappedUris[k]
           loaded == loadSchemaOrEmpty(files[u])
       IN IF ~Exists(files[u]) THEN LoadFrom(map, files, k + 1)
          ELSE IF Threw(loaded) THEN [rejected |-> loaded.threw]
          ELSE LoadFrom([map EXCEPT ![u] = Entry(loaded.schema, loaded.hash, FALSE)],
                        files, k + 1)

\* SchemaIndex.loadExistingSchemas(rootUri): the map of the root's model, or
\* the error the promise of getSchemaRoot is rejected with.
loadExistingSchemas(files) ==
  LoadFrom([u \in {MappedUris[k] : k \in 1..Len(MappedUris)} |-> Absent], files, 1)

IsRejected(model) == "rejected" \in DOMAIN model

\* SchemaIndex.getSchemaByUri(uri): it awaits the promise of the root's model.
IndexGetSchemaByUri(model, u) ==
  IF IsRejected(model) THEN [threw |-> model.rejected]
  ELSE [schema |-> getSchemaByUri(model.schemaMap, u)[u].schema]

\* A root is opened whose mapping folder holds these files.
RootCalls ==
  {[fn |-> "getSchemaRoot", files |-> f] :
     f \in [{MappedUris[k] : k \in 1..Len(MappedUris)} -> {NoFile} \cup StoredDocuments]}

NotAsked == [asked |-> FALSE]

\* The first getSchemaRoot of the root: the promise it stores in schemaModels
\* settles with the model or with the error of loadExistingSchemas.
OpenRoot ==
  /\ IsPending
  /\ call.fn = "getSchemaRoot"
  /\ result' = [model |-> loadExistingSchemas(call.files),
                got |-> [u \in DOMAIN call.files |-> NotAsked]]
  /\ UNCHANGED <<call, ProgramVars>>

\* getSchemaByUri is called on the index for file u of the root.
GetSchemaByUri(u) ==
  /\ call.fn = "getSchemaRoot"
  /\ ~IsPending
  /\ result.got[u] = NotAsked
  /\ result' = [result EXCEPT !.got[u] = IndexGetSchemaByUri(result.model, u)]
  /\ UNCHANGED <<call, ProgramVars>>

NextRoot == OpenRoot \/ \E k \in 1..Len(MappedUris) : GetSchemaByUri(MappedUris[k])

SpecRoot == InitCall(RootCalls) /\ [][NextRoot]_vars

\* ------------------------------------------------------------ diagnostics
\* A third source file, which the runs below also let be deleted.
GoneUri == "c.ts"

Sources == {DocUri, SiblingUri, GoneUri}

\* A comment stored for one file whose code side was pinned in codeUri.
CommentTo(codeUri, id, text, commentRange, codeText, codeRange) ==
  [CommentAcross(id, text, commentRange, codeText, codeRange) EXCEPT
     !.codeRelativePath = codeUri]

\* diagnosticCollection: nothing set for a file, or the findings set for it.
NotPublished == [unset |-> TRUE]

Published(errors) == [errors |-> errors]

\* The files with a comment in another file that resolves to uri.
ReferencingOthers(map, uri) ==
  {u \in DOMAIN map \ {uri} :
     /\ ~IsAbsent(map[u])
     /\ \E i \in 1..Len(map[u].schema.comments) :
          resolveCodePath(u, map[u].schema.comments[i]) = uri}

\* The filter of publishDiagnostics over [...this.schemaMap]: the files of the
\* map with a comment whose resolveCodePath is the document's uri, the document's
\* own file among them.
ReferencingFiles(map, uri) ==
  {u \in DOMAIN map :
     /\ ~IsAbsent(map[u])
     /\ \E i \in 1..Len(map[u].schema.comments) :
          resolveCodePath(u, map[u].schema.comments[i]) = uri}

\* A publishDiagnostics that propagates whatever its recurse argument is.
PropagatesAlways(map, uri, recurse) == ReferencingFiles(map, uri)

\* The files publishDiagnostics(doc, recurse) goes on to after the document's
\* own findings are set: the referencing files when recurse is set, none when
\* it is not.
Propagates(map, uri, recurse) == IF recurse THEN ReferencingFiles(map, uri) ELSE {}

\* fileToVscodeDocument(sourceUri) and getDiagnostics on it: the file is read
\* from disk, which rejects when it is gone, and validated with the schema the
\* map holds for it.
DiagnosticsFromDisk(map, files, u) ==
  IF Exists(files[u])
  THEN validate(u, files[u].text, files, map[u].schema)
  ELSE [threw |-> "ENOENT", schema |-> map[u].schema]

\* The call after the document's own validation: the findings are set for the
\* document and the files to propagate to are listed, or the call is rejected.
AfterOwn(uri, entered, own) ==
  IF Threw(own)
  THEN [own |-> "threw", map |-> entered, left |-> {}, rejected |-> TRUE,
        revalidated |-> [u \in Sources |-> 0],
        collection |-> [u \in Sources |-> NotPublished]]
  ELSE [own |-> "returned", map |-> entered,
        left |-> Propagates(entered, uri, TRUE), rejected |-> FALSE,
        revalidated |-> [u \in Sources |-> 0],
        collection |-> [u \in Sources |->
                          IF u = uri THEN Published(own.errors) ELSE NotPublished]]

\* publishDiagnostics(doc, true) up to the recursion: getDiagnostics of the
\* document with getSchemaByUri(doc.uri).schema, diagnosticCollection.set, and
\* the list of files Promise.all maps over. A validation that rejects ends
\* the call there.
PublishOwnDiagnostics ==
  /\ IsPending
  /\ call.fn = "publishDiagnostics"
  /\ result' = AfterOwn(call.uri, getSchemaByUri(call.map, call.uri),
                        getDiagnostics(call.uri, call.text, call.files,
                                       getSchemaByUri(call.map, call.uri)[call.uri].schema))
  /\ UNCHANGED <<call, ProgramVars>>

\* The call after one branch of the propagation, publishDiagnostics(sourceDoc,
\* false): the findings are set for the referencing file, or the branch has
\* rejected; revalidated counts the branches run for the file.
AfterBranch(res, u, found) ==
  [res EXCEPT !.left = (@ \ {u}) \cup (IF Threw(found) THEN {}
                                       ELSE Propagates(res.map, u, FALSE)),
              !.revalidated[u] = @ + 1,
              !.rejected = @ \/ Threw(found),
              !.collection[u] = IF Threw(found) THEN @ ELSE Published(found.errors)]

\* One branch of the Promise.all: publishDiagnostics(sourceDoc, false) for a
\* referencing file. A branch that rejects rejects the call; the other
\* branches still run.
PublishReferencing(u) ==
  /\ ~IsPending
  /\ call.fn = "publishDiagnostics"
  /\ u \in result.left
  /\ result' = AfterBranch(result, u, DiagnosticsFromDisk(result.map, call.files, u))
  /\ UNCHANGED <<call, ProgramVars>>

\* The calls of publishDiagnostics: a document of the editor, the source files
\* on disk, and the schemas the map holds for them.
PublishCalls ==
  LET Held(comments) ==
        Entry(SchemaOf(comments), Md5(Serialize(SchemaOf(comments))), FALSE)
      Within == Held(<<Comment(0, InitialText, FirstLine, SecondLine)>>)
      To(uri) == Held(<<CommentTo(uri, 0, InitialText, FirstLine, InitialText, SecondLine)>>)
      Texts == {InitialText, <<"x">> \o InitialText}
      OnDisk == {NoFile} \cup {TextFile(t) : t \in Texts}
  IN {[fn |-> "publishDiagnostics", uri |-> uri, text |-> text,
       files |-> [u \in Sources |-> IF u = DocUri THEN a ELSE IF u = SiblingUri THEN b ELSE c],
       map |-> [u \in Sources |-> IF u = DocUri THEN ma ELSE IF u = SiblingUri THEN mb ELSE mc]] :
        uri \in {DocUri, SiblingUri}, text \in Texts,
        a \in OnDisk, b \in OnDisk, c \in {NoFile, TextFile(InitialText)},
        ma \in {Absent, Within, To(SiblingUri)},
        mb \in {Absent, Within, To(DocUri), To(GoneUri)},
        mc \in {Absent, To(SiblingUri)}}

NextPublish ==
  \/ PublishOwnDiagnostics
  \/ \E u \in Sources : PublishReferencing(u)

SpecPublish == InitCall(PublishCalls) /\ [][NextPublish]_vars

\* ------------------------------------------------------------ edit sequences
\* Events of one change follow one another, up to MaxEdits of them.
NextEdits ==
  /\ nEvents < MaxEdits
  /\ \E u \in Uris : \E c \in Edits(doc[u]) : EditEvent(u, <<c>>)

SpecEdits == InitWith(InitialSchemas) /\ [][NextEdits]_vars

\* ------------------------------------------------------------ commands
\* The schema removeCommentFromSchema leaves in the cache before it saves:
\* schema.comments.splice(existingIndex, 1) for the first comment with the id.
RemovedSchema(schema, id) ==
  LET hits == {i \in 1..Len(schema.comments) : schema.comments[i].id = id}
      existingIndex == CHOOSE i \in hits : \A j \in hits : i <= j
  IN [schema EXCEPT !.comments =
        SubSeq(@, 1, existingIndex - 1) \o SubSeq(@, existingIndex + 1, Len(@))]

HasComment(schema, id) == \E i \in 1..Len(schema.comments) : schema.comments[i].id = id

\* Commands.removeCommentFromSchema(editor, comment): refused on a dirty
\* document, "not found" without any change when no comment has the id; else
\* the comment is spliced out of the cached schema, which is then saved.
RemoveCommentFromSchema(u, id) ==
  /\ nEvents < MaxCommands
  /\ HasFreeTask
  /\ ~docDirty[u]
  /\ LET t == FreeTask
         entered == getSchemaByUri(schemaMap, u)
     IN /\ HasComment(entered[u].schema, id)
        /\ tasks' = [tasks EXCEPT ![t] =
                       [IdleTask EXCEPT !.kind = "remove", !.uri = u, !.pc = "load",
                                        !.afterConflict = Conflicted(u),
                                        !.returned = "pending"]]
        /\ schemaMap' = [entered EXCEPT ![u].schema = RemovedSchema(@, id)]
  /\ nEvents' = nEvents + 1
  /\ UNCHANGED <<doc, docDirty, last, disk, ioSerializationPromises, nExternal,
                 watchPending, orderVars, libVars>>

\* The move fixes the code actions offer for file u: the moveFix of a finding
\* of validate, with the finding's commentId. The findings were published for
\* the schema of the cache or, earlier, for the one last saved.
FixesOffered(u) ==
  LET Members(errors) == {errors[k] : k \in 1..Len(errors)}
      Findings(schema) ==
        Members(getDiagnostics(u, doc[u], [s \in Sources |-> NoFile], schema).errors)
      schemas == (IF IsAbsent(schemaMap[u]) THEN {} ELSE {schemaMap[u].schema})
                 \cup (IF Exists(disk[u]) THEN {Parse(disk[u])} ELSE {})
  IN {[oldCommentId |-> e.commentId, newComment |-> e.moveFix] :
        e \in {f \in UNION {Findings(s) : s \in schemas} : f.moveFix # NoFix}}

\* A fix that adds the new comment and leaves the old one.
FixedSchemaAdded(schema, oldCommentId, newComment) ==
  [schema EXCEPT !.comments = Append(@, newComment)]

\* The schema fixMovedComment leaves in the cache before it saves:
\* schema.comments[oldCommentIndex] = newComment.
FixedSchema(schema, oldCommentId, newComment) ==
  LET hits == {i \in 1..Len(schema.comments) : schema.comments[i].id = oldCommentId}
      oldCommentIndex == CHOOSE i \in hits : \A j \in hits : i <= j
  IN [schema EXCEPT !.comments[oldCommentIndex] = newComment]

\* CodeActions.fixMovedComment({oldCommentId, oldCommentUri, newComment}): it
\* throws "Old comment not found" when no comment has the id, before it has
\* changed anything but the entry getSchemaByUri makes for a file without
\* one; else the comment is replaced in the cached schema, which is then
\* saved.
FixMovedComment(u, oldCommentId, newComment) ==
  /\ nEvents < MaxCommands
  /\ HasFreeTask
  /\ LET t == FreeTask
         entered == getSchemaByUri(schemaMap, u)
         found == HasComment(entered[u].schema, oldCommentId)
         task == [IdleTask EXCEPT !.kind = "fix", !.uri = u,
                                  !.afterConflict = Conflicted(u)]
     IN /\ tasks' = [tasks EXCEPT ![t] =
                       IF found THEN [task EXCEPT !.pc = "load", !.returned = "pending"]
                       ELSE [task EXCEPT !.pc = "refused", !.returned = "rejected"]]
        /\ schemaMap' = IF found
                        THEN [entered EXCEPT ![u].schema =
                                FixedSchema(@, oldCommentId, newComment)]
                        ELSE entered
  /\ nEvents' = nEvents + 1
  /\ UNCHANGED <<doc, docDirty, last, disk, ioSerializationPromises, nExternal,
                 watchPending, orderVars, libVars>>

\* The link command, counted.
LinkCommand(u, commentRange, codeRange) ==
  /\ nEvents < MaxCommands
  /\ CommitNewRangeToMap(u, commentRange, codeRange)
  /\ nEvents' = nEvents + 1

\* A command that is over has returned: its slot is free again.
CommandReturned(t) ==
  /\ tasks[t].kind \in {"link", "remove", "fix"}
  /\ tasks[t].pc \in {"done", "conflict", "refused"}
  /\ tasks' = [tasks EXCEPT ![t] = IdleTask]
  /\ UNCHANGED <<editVars, disk, schemaMap, ioSerializationPromises, nExternal,
                 watchPending, orderVars, libVars>>

\* A second comment next to the pinned one.
TwoPins ==
  [PinnedSchema EXCEPT !.comments =
     Append(@, Comment(1, InitialText, Rng(Pos(0, 1), Pos(0, 2)), Rng(Pos(1, 1), Pos(1, 2))))]

\* A comment on "b" whose comment range was left one character to the left.
MovedSchema ==
  SchemaOf(<<[Comment(0, InitialText, Rng(Pos(0, 1), Pos(0, 2)), SecondLine) EXCEPT
                !.commentRange = Rng(Pos(0, 0), Pos(0, 1))]>>)

\* The selections the commands are run on.
CommandSelections ==
  LinkSelections \cup {[commentRange |-> FirstLine, codeRange |-> SecondLine]}

\* The ids a remove command is given.
CommandIds == 0..MaxCommands

NextCommands ==
  \/ \E u \in Uris : \E sel \in CommandSelections :
       LinkCommand(u, sel.commentRange, sel.codeRange)
  \/ \E u \in Uris : \E id \in CommandIds : RemoveCommentFromSchema(u, id)
  \/ \E u \in Uris : \E fix \in FixesOffered(u) :
       FixMovedComment(u, fix.oldCommentId, fix.newComment)
  \/ \E t \in Tasks : LoadSchemaOrEmpty(t)
  \/ \E t \in Tasks : CheckHash(t)
  \/ \E t \in Tasks : WriteFile(t)
  \/ \E t \in Tasks : SetSaved(t)
  \/ \E t \in Tasks : PublishDiagnostics(t)
  \/ \E t \in Tasks : CommandReturned(t)

SpecCommands ==
  InitWith({emptySchema, PinnedSchema, TwoPins, MovedSchema}) /\ [][NextCommands]_vars

\* ------------------------------------------------------------ diagnostics of an edited document
\* The calls of getDiagnostics: one comment pinned on InitialText, both sides
\* in the document, and the document one edit later.
DiagnosticsCalls ==
  {[fn |-> "getDiagnostics", uri |-> DocUri, text |-> text,
    files |-> [u \in {SiblingUri} |-> NoFile],
    schema |-> SchemaOf(<<Comment(0, InitialText, r, q)>>)] :
     text \in EditedTexts, r \in PinRanges, q \in PinRanges}

\* getDiagnostics is called with the document and the schema of the call.
GetDiagnostics ==
  /\ IsPending
  /\ call.fn = "getDiagnostics"
  /\ result' = getDiagnostics(call.uri, call.text, call.files, call.schema)
  /\ UNCHANGED <<call, ProgramVars>>

NextDiagnostics == GetDiagnostics

SpecDiagnostics == InitCall(DiagnosticsCalls) /\ [][NextDiagnostics]_vars

\* ------------------------------------------------------------ guardIO on its own
\* Most promises guardIO hands out in a run of guardIO calls.
MaxGuarded == 4

GuardKeys == {DocUri, SiblingUri}

\* A function that does nothing but return.
PlainFunction == [nested |-> "none", innerKey |-> ""]

\* What a function handed to guardIO does before it returns: nothing, or one
\* guardIO call of its own under innerKey whose promise it awaits or drops.
GuardedFunctions ==
  {PlainFunction} \cup [nested : {"awaited", "detached"}, innerKey : GuardKeys]

\* A promise guardIO returned: existingPromise.then(fn), pred standing for
\* existingPromise (0 for Promise.resolve()), by for the promise whose function
\* made the call (0 for a call from outside), inner for the promise the
\* function got from its own call.
GuardedPromise(key, fn, pred, by) ==
  [key |-> key, fn |-> fn, pred |-> pred, by |-> by, pc |-> "queued", inner |-> 0]

IsSettled(p) == p.pc \in {"fulfilled", "rejected"}

\* SchemaModel.guardIO(key, fn): the promise is chained on the one stored under
\* the key and stored in its place.
guardIO(promises, stored, key, fn, by) ==
  [promises |-> Append(promises,
                       GuardedPromise(key, fn, existingPromise(stored, key), by)),
   stored |-> [stored EXCEPT ![key] = Len(promises) + 1]]

\* Promise p settles; guardIO's finally removes the key when p is still the
\* promise stored under it.
SettleGuarded(p, pc) ==
  /\ tasks' = [tasks EXCEPT ![p].pc = pc]
  /\ ioSerializationPromises' =
       [ioSerializationPromises EXCEPT ![tasks[p].key] = IF @ = p THEN 0 ELSE @]

\* The guardIO calls that functions already handed over have still to make.
CallsToCome ==
  Cardinality({p \in 1..Len(tasks) : tasks[p].fn.nested # "none" /\ tasks[p].inner = 0})

GuardVarsUnchanged ==
  UNCHANGED <<doc, docDirty, disk, schemaMap, nEvents, last, nExternal, watchPending,
              orderVars, libVars>>

\* guardIO(key, fn) is called from outside any guarded function.
GuardIOCall(key, fn) ==
  /\ Len(tasks) + CallsToCome + (IF fn.nested = "none" THEN 1 ELSE 2) <= MaxGuarded
  /\ LET st == guardIO(tasks, ioSerializationPromises, key, fn, 0)
     IN /\ tasks' = st.promises
        /\ ioSerializationPromises' = st.stored
  /\ GuardVarsUnchanged

\* existingPromise has fulfilled: then(fn) invokes fn.
InvokeGuarded(p) ==
  /\ tasks[p].pc = "queued"
  /\ IF tasks[p].pred = 0 THEN TRUE ELSE tasks[tasks[p].pred].pc = "fulfilled"
  /\ tasks' = [tasks EXCEPT ![p].pc = "running"]
  /\ UNCHANGED ioSerializationPromises
  /\ GuardVarsUnchanged

\* existingPromise was rejected: then(fn) rejects without invoking fn.
SkipGuarded(p) ==
  /\ tasks[p].pc = "queued"
  /\ IF tasks[p].pred = 0 THEN FALSE ELSE tasks[tasks[p].pred].pc = "rejected"
  /\ SettleGuarded(p, "rejected")
  /\ GuardVarsUnchanged

\* The running function of p calls guardIO(innerKey, ...) and awaits the
\* promise or goes on without it.
NestedGuardIO(p) ==
  /\ tasks[p].pc = "running"
  /\ tasks[p].fn.nested # "none" /\ tasks[p].inner = 0
  /\ LET st == guardIO(tasks, ioSerializationPromises, tasks[p].fn.innerKey,
                       PlainFunction, p)
     IN /\ tasks' = [st.promises EXCEPT
                       ![p].inner = Len(st.promises),
                       ![p].pc = IF tasks[p].fn.nested = "awaited" THEN "awaiting"
                                 ELSE "running"]
        /\ ioSerializationPromises' = st.stored
  /\ GuardVarsUnchanged

\* The promise the function of p awaits has settled: the function goes on, or
\* throws what the promise was rejected with.
ResumeGuarded(p) ==
  /\ tasks[p].pc = "awaiting"
  /\ IsSettled(tasks[tasks[p].inner])
  /\ IF tasks[tasks[p].inner].pc = "fulfilled"
     THEN /\ tasks' = [tasks EXCEPT ![p].pc = "running"]
          /\ UNCHANGED ioSerializationPromises
     ELSE SettleGuarded(p, "rejected")
  /\ GuardVarsUnchanged

\* The function of p returns or throws.
ReturnGuarded(p, fulfilled) ==
  /\ tasks[p].pc = "running"
  /\ tasks[p].fn.nested = "none" \/ tasks[p].inner # 0
  /\ SettleGuarded(p, IF fulfilled THEN "fulfilled" ELSE "rejected")
  /\ GuardVarsUnchanged

\* No guardIO call has been made, and nothing is stored under any key.
InitGuard ==
  /\ doc = [u \in Uris |-> InitialText]
  /\ docDirty = [u \in Uris |-> FALSE]
  /\ disk = [u \in Uris |-> NoFile]
  /\ schemaMap = [u \in Uris |-> Absent]
  /\ nEvents = 0
  /\ last = NoEvent
  /\ tasks = <<>>
  /\ ioSerializationPromises = [key \in GuardKeys |-> 0]
  /\ nExternal = 0
  /\ watchPending = [u \in Uris |-> FALSE]
  /\ inbox = <<>>
  /\ applied = <<>>
  /\ saveRootCache = [u \in Uris |-> TRUE]
  /\ schemaModels = ReadyModel
  /\ call = NoCall
  /\ result = Pending

NextGuard ==
  \/ \E key \in GuardKeys, fn \in GuardedFunctions : GuardIOCall(key, fn)
  \/ \E p \in 1..Len(tasks) : InvokeGuarded(p)
  \/ \E p \in 1..Len(tasks) : SkipGuarded(p)
  \/ \E p \in 1..Len(tasks) : NestedGuardIO(p)
  \/ \E p \in 1..Len(tasks) : ResumeGuarded(p)
  \/ \E p \in 1..Len(tasks), fulfilled \in BOOLEAN : ReturnGuarded(p, fulfilled)

SpecGuard == InitGuard /\ [][NextGuard]_vars

\* ------------------------------------------------------------ edits across files
\* The cache entry of a file loaded with the schema, clean or with unsaved
\* changes.
CachedEntries(schema) ==
  {Entry(schema, Md5(Serialize(schema)), dirty) : dirty \in BOOLEAN}

\* The edited document is the sibling. The other file stores one comment whose
\* code side is pinned in the sibling; the sibling has no entry, an empty one,
\* or a comment of its own.
CrossMaps ==
  {[u \in {DocUri, SiblingUri} |-> IF u = DocUri THEN source ELSE edited] :
     source \in UNION {CachedEntries(SchemaOf(<<CommentAcross(0, InitialText, FirstLine,
                                                              InitialText, r)>>)) :
                         r \in {FirstLine, SecondLine}},
     edited \in {Absent} \cup CachedEntries(emptySchema)
                \cup CachedEntries(SchemaOf(<<Comment(1, InitialText, FirstLine, SecondLine)>>))}

CrossCalls ==
  {[fn |-> "onDidChangeTextDocument", map |-> map, uri |-> SiblingUri, changes |-> <<c>>] :
     map \in CrossMaps, c \in Edits(InitialText)}

\* The handler of an edit event runs on the map of the call.
OnDidChangeTextDocument ==
  /\ IsPending
  /\ call.fn = "onDidChangeTextDocument"
  /\ result' = onDidChangeTextDocument(call.map, call.uri, call.changes)
  /\ UNCHANGED <<call, ProgramVars>>

NextCross == OnDidChangeTextDocument

SpecCross == InitCall(CrossCalls) /\ [][NextCross]_vars

\* ------------------------------------------------------------ opening a root
\* Most getSchemaRoot calls in a run.
MaxRootCalls == 3

RootFileSet == {MappedUris[k] : k \in 1..Len(MappedUris)}

\* schemaModels of the index: the promises created for the root so far, and
\* the place of the one stored under the root's path (0 when none is).
NoModels == [promises |-> <<>>, stored |-> 0]

\* An index that never finds a promise stored under the root's path.
hasModelNever(models) == FALSE

\* this.schemaModels.has(rootPath)
hasModel(models) == models.stored # 0

\* getSchemaRoot from the has() test to its return, which has no await in
\* between: a promise is created and stored when none is, and the stored one
\* is returned. The promise's executor starts loadExistingSchemas.
EnsureModel(models) ==
  IF hasModel(models) THEN models
  ELSE [promises |-> Append(models.promises, [state |-> "loading"]),
        stored |-> Len(models.promises) + 1]

\* The mapping files of the root's folder.
RootFiles == [u \in RootFileSet |-> IF u \in Uris THEN disk[u] ELSE NoFile]

RootVarsUnchanged == UNCHANGED <<editVars, disk, schemaMap, storeVars, applied, libVars>>

\* getSchemaRoot(u) is called and awaits findSaveRoot(u).
GetSchemaRootCall(u) ==
  /\ Len(inbox) < MaxRootCalls
  /\ inbox' = Append(inbox, [uri |-> u, stage |-> "findRoot", promise |-> 0])
  /\ UNCHANGED <<saveRootCache, schemaModels>>
  /\ RootVarsUnchanged

\* findSaveRoot has answered the call at place k, which goes on to await the
\* promise stored under the root.
RootFound(k) ==
  /\ inbox[k].stage = "findRoot"
  /\ saveRootCache' = [saveRootCache EXCEPT ![inbox[k].uri] = TRUE]
  /\ schemaModels' = EnsureModel(schemaModels)
  /\ inbox' = [inbox EXCEPT ![k].stage = "awaitModel",
                            ![k].promise = EnsureModel(schemaModels).stored]
  /\ RootVarsUnchanged

\* Promise p settles: with a new model built on what loadExistingSchemas read,
\* or with the error it threw.
ModelSettles(p) ==
  /\ schemaModels.promises[p].state = "loading"
  /\ schemaModels' =
       [schemaModels EXCEPT !.promises[p] =
          IF IsRejected(loadExistingSchemas(RootFiles))
          THEN [state |-> "rejected"]
          ELSE [state |-> "ready", schemaMap |-> loadExistingSchemas(RootFiles).schemaMap]]
  /\ UNCHANGED <<saveRootCache, inbox>>
  /\ RootVarsUnchanged

\* The call at place k gets what the promise it awaits settled with.
ModelReturned(k) ==
  /\ inbox[k].stage = "awaitModel"
  /\ schemaModels.promises[inbox[k].promise].state # "loading"
  /\ inbox' = [inbox EXCEPT ![k].stage =
                 IF schemaModels.promises[inbox[k].promise].state = "ready"
                 THEN "resolved" ELSE "rejected"]
  /\ UNCHANGED <<saveRootCache, schemaModels>>
  /\ RootVarsUnchanged

\* The extension has just been activated; the root's folder holds no mapping
\* file, a valid one, or one that is not JSON.
InitRoots ==
  /\ doc = [u \in Uris |-> InitialText]
  /\ docDirty = [u \in Uris |-> FALSE]
  /\ disk \in [Uris -> {NoFile, Serialize(PinnedSchema), Garbage}]
  /\ schemaMap = [u \in Uris |-> Absent]
  /\ nEvents = 0
  /\ last = NoEvent
  /\ tasks = [t \in Tasks |-> IdleTask]
  /\ ioSerializationPromises = [u \in Uris |-> 0]
  /\ nExternal = 0
  /\ watchPending = [u \in Uris |-> FALSE]
  /\ inbox = <<>>
  /\ applied = <<>>
  /\ saveRootCache = [u \in RootFileSet |-> FALSE]
  /\ schemaModels = NoModels
  /\ call = NoCall
  /\ result = Pending

NextRoots ==
  \/ \E u \in RootFileSet : GetSchemaRootCall(u)
  \/ \E k \in 1..Len(inbox) : RootFound(k)
  \/ \E p \in 1..Len(schemaModels.promises) : ModelSettles(p)
  \/ \E k \in 1..Len(inbox) : ModelReturned(k)

SpecRoots == InitRoots /\ [][NextRoots]_vars

\* ------------------------------------------------------------ properties: range translator
\* The tracked ranges the last edit event was applied to, by name.
LastRefs == getSchemaRangesByFile(last.map, last.uri)

LastRefSet == {LastRefs[k] : k \in 1..Len(LastRefs)}

\* The range r lies entirely before or entirely after the edited range cr.
Outside(r, cr) == IsBeforeOrEqual(r.end, cr.start) \/ IsAfterOrEqual(r.start, cr.end)

\* C1: after a single edit that lies entirely before or entirely after a
\* tracked range, the text under the range's new coordinates in the edited
\* document is the text that was under its old coordinates before the edit.
C1_TextKeptOutsideEdit ==
  Len(last.changes) = 1 =>
    \A ref \in LastRefSet :
      Outside(Deref(last.map, ref), last.changes[1].range) =>
        GetText(doc[last.uri], Deref(schemaMap, ref)) = GetText(last.doc, Deref(last.map, ref))

\* The schema map after the changes were applied one event at a time.
RECURSIVE OneAtATime(_, _, _, _)
OneAtATime(map, uri, changes, k) ==
  IF k > Len(changes) THEN map
  ELSE OneAtATime(updateSchemaFromPendingChanges(map, uri, <<changes[k]>>).map,
                  uri, changes, k + 1)

\* C2: a batch of several edits leaves the tracked ranges where applying its
\* edits one at a time, in the order given, leaves them.
C2_BatchIsSequential ==
  Len(last.changes) > 1 =>
    \A ref \in LastRefSet :
      Deref(schemaMap, ref) = Deref(OneAtATime(last.map, last.uri, last.changes, 1), ref)

\* C3: an edit that overlaps a tracked range collapses the range to the
\* zero-width range at the edit's start.
C3_OverlapCollapses ==
  Len(last.changes) = 1 =>
    \A ref \in LastRefSet :
      ~Outside(Deref(last.map, ref), last.changes[1].range) =>
        Deref(schemaMap, ref) =
          Rng(last.changes[1].range.start, last.changes[1].range.start)

\* The file of the last edit event holds unsaved changes.
LastFileDirty ==
  ~IsAbsent(schemaMap[last.uri]) /\ schemaMap[last.uri].hasUnsavedChanges

\* C10: an edit event reports wasUpdated, and the file turns dirty, exactly when
\* it changed the coordinates of a tracked range.
C10_UpdatedIffRangeChanged ==
  Len(last.changes) > 0 =>
    LET changed == \E ref \in LastRefSet : Deref(schemaMap, ref) # Deref(last.map, ref)
    IN (last.wasUpdated <=> changed) /\ (LastFileDirty <=> changed)

\* ------------------------------------------------------------ properties: saves and delivery
\* The hash the cache holds for u: an empty schema's when u has no entry.
CachedHash(map, u) == getSchemaByUri(map, u)[u].hash

\* The saves that stand between their read of the file and their update of
\* the cache.
InStoreIO(u) ==
  {t \in Tasks : tasks[t].uri = u /\ tasks[t].pc \in {"load", "check", "write", "written"}}

C5_WriteReplacesCheckedBytes ==
  [][\A t \in Tasks :
       (tasks[t].pc = "write" /\ tasks'[t].pc = "written")
       => DiskHash(disk[tasks[t].uri]) = tasks[t].seen]_vars

\* C6: at no time are two store operations on one file's mapping in progress.
C6_OneStoreOperationAtATime ==
  \A u \in Uris : Cardinality(InStoreIO(u)) <= 1

\* C7: the handlers of the edit events of a file run in the order the events
\* were delivered.
C7_AppliedInDeliveryOrder ==
  \A i \in 1..Len(applied) : \A j \in 1..Len(applied) :
    i < j => applied[i] < applied[j]

\* C8: when a save returns, the cache holds the schema that was written, the
\* cached hash is the hash of the bytes on disk, and the file has no unsaved
\* changes.
C8_CacheIsWhatWasSaved ==
  [][\A t \in Tasks :
       (tasks[t].pc = "written" /\ tasks'[t].pc = "publish")
       => /\ Serialize(schemaMap'[tasks[t].uri].schema) = tasks[t].contents
          /\ schemaMap'[tasks[t].uri].hash = DiskHash(disk'[tasks[t].uri])
          /\ ~schemaMap'[tasks[t].uri].hasUnsavedChanges]_vars

\* C9, as stated: once a save has failed on the hash test, no save started
\* later passes the test (the cache is never fetched again from disk).
C9_LaterSavesFail ==
  [][\A t \in Tasks :
       (tasks[t].afterConflict /\ tasks[t].pc = "check")
       => tasks'[t].pc # "write"]_vars

\* C9, amended: a save started after a failed one tests the hash of the bytes
\* it read from disk; it fails when that hash is not the cached one, leaving
\* disk and cache entry as they were, and goes on to write when it is.
C9_LaterSaveFailsWhileStale ==
  [][\A t \in Tasks :
       tasks[t].afterConflict =>
         LET u == tasks[t].uri
         IN /\ (tasks[t].pc = "load" /\ tasks'[t].pc = "check")
               => tasks'[t].seen = (IF Exists(disk[u]) THEN Md5(disk[u]) ELSE EMPTY_SCHEMA_HASH)
            /\ (tasks[t].pc = "check" /\ tasks'[t] # tasks[t])
               => IF tasks[t].seen # CachedHash(schemaMap, u)
                  THEN /\ tasks'[t].pc = "conflict"
                       /\ disk' = disk
                       /\ getSchemaByUri(schemaMap', u)[u] = getSchemaByUri(schemaMap, u)[u]
                  ELSE tasks'[t].pc = "write"]_vars

\* A save started after a failed one has failed as well.
C9_Witness ==
  \E t \in Tasks : tasks[t].afterConflict /\ tasks[t].pc = "conflict"

\* ------------------------------------------------------------ properties: validator
ValidateReturned == call.fn = "validate" /\ ~IsPending /\ ~Threw(result)

\* The text of the document that holds the given side of comment c in the call.
SideText(c, side) ==
  IF side = "code" /\ c.codeRelativePath # "" THEN call.files[c.codeRelativePath].text
  ELSE call.text

\* The text the side's document gives at the side's range is the stored value.
SideMatches(c, side) ==
  IF side = "comment" THEN NodeGetText(SideText(c, side), c.commentRange) = c.commentValue
  ELSE NodeGetText(SideText(c, side), c.codeRange) = c.codeValue

FindingsOf(c) == {k \in 1..Len(result.errors) : result.errors[k].commentId = c.id}

\* C11: when validate returns, a comment both of whose sides match has no
\* finding, and every other comment has exactly one, of type CommentMismatch,
\* CodeMismatch or BothMismatch for the side or sides that do not match.
C11_OneFindingPerMismatch ==
  ValidateReturned =>
    \A i \in 1..Len(call.schema.comments) :
      LET c == call.schema.comments[i]
          cm == SideMatches(c, "comment")
          km == SideMatches(c, "code")
      IN IF cm /\ km THEN FindingsOf(c) = {}
         ELSE /\ Cardinality(FindingsOf(c)) = 1
              /\ \A k \in FindingsOf(c) :
                   result.errors[k].errorType =
                     (IF km THEN CommentMismatch ELSE IF cm THEN CodeMismatch
                      ELSE BothMismatch)

\* A schema of two comments was validated: the first matches and has no
\* finding, the second has one for its code side.
C11_Witness ==
  /\ ValidateReturned
  /\ Len(call.schema.comments) = 2
  /\ Len(result.errors) = 1
  /\ result.errors[1].commentId = 1
  /\ result.errors[1].errorType = CodeMismatch

\* The stored value of the side occurs somewhere in the side's document.
Occurs(c, side) ==
  LET text == SideText(c, side)
      value == IF side = "comment" THEN c.commentValue ELSE c.codeValue
  IN \E i \in 0..(Len(text) - Len(value)) : SubSeq(text, i + 1, i + Len(value)) = value

\* C12: when validate returns, the finding of a comment carries a moveFix
\* whenever a side that does not match has its stored value somewhere in that
\* side's document, whatever the other side does.
C12_MoveFixForEachFoundSide ==
  ValidateReturned =>
    \A i \in 1..Len(call.schema.comments) :
      LET c == call.schema.comments[i]
      IN \A side \in {"comment", "code"} :
           (~SideMatches(c, side) /\ Occurs(c, side)) =>
             \A k \in FindingsOf(c) : result.errors[k].moveFix # NoFix

\* The range of the first occurrence of value in text: from the position of
\* its first character to the position just past its last one.
FirstOccurrence(text, value) ==
  LET at == {i \in 0..(Len(text) - Len(value)) : SubSeq(text, i + 1, i + Len(value)) = value}
      first == CHOOSE i \in at : \A j \in at : i <= j
      PosOf(o) == CHOOSE p \in Positions(text) : OffsetAt(text, p) = o
  IN Rng(PosOf(first), PosOf(first + Len(value)))

\* C13: when validate returns and exactly one side of a comment does not match
\* while its stored value occurs in that side's document, the finding's moveFix
\* is the stored comment with that side's range replaced by the range of the
\* first occurrence.
C13_MoveFixIsFirstOccurrence ==
  ValidateReturned =>
    \A i \in 1..Len(call.schema.comments) :
      LET c == call.schema.comments[i]
          cm == SideMatches(c, "comment")
          km == SideMatches(c, "code")
      IN /\ (~cm /\ km /\ Occurs(c, "comment")) =>
              \A k \in FindingsOf(c) :
                result.errors[k].moveFix =
                  [c EXCEPT !.commentRange = FirstOccurrence(SideText(c, "comment"), c.commentValue)]
         /\ (cm /\ ~km /\ Occurs(c, "code")) =>
              \A k \in FindingsOf(c) :
                result.errors[k].moveFix =
                  [c EXCEPT !.codeRange = FirstOccurrence(SideText(c, "code"), c.codeValue)]

\* A finding for the code side alone whose moveFix moves the code range, the
\* stored value occurring twice in the document.
C13_Witness ==
  /\ ValidateReturned
  /\ \E k \in 1..Len(result.errors) :
       LET e == result.errors[k]
       IN /\ e.errorType = CodeMismatch
          /\ e.moveFix # NoFix
          /\ e.moveFix.codeRange # e.codeLocation.range
          /\ e.moveFix.commentRange = e.commentRange
          /\ IndexOfLast(call.text, e.expected.code) # IndexOf(call.text, e.expected.code)

\* C14: after validate, whether it returned findings or rejected, the schema
\* object it was given holds the comments it held before the call.
C14_ValidateLeavesSchema ==
  (call.fn = "validate" /\ ~IsPending) => result.schema = call.schema

\* validate returned a finding for both sides with a moveFix that moves both
\* ranges.
C14_Witness ==
  /\ ValidateReturned
  /\ \E k \in 1..Len(result.errors) :
       LET e == result.errors[k]
       IN /\ e.errorType = BothMismatch
          /\ e.moveFix # NoFix
          /\ e.moveFix.commentRange # e.commentRange
          /\ e.moveFix.codeRange # e.codeLocation.range

\* ------------------------------------------------------------ properties: schema store
\* loadSchema has been called and has returned or thrown.
Loaded == call.fn \in {"loadSchema", "saveSchema"} /\ ~IsPending /\ ~IsSaved

\* C15: loadSchema called after saveSchema of a valid File, for the same source
\* path and with no write in between, returns a schema equal to that File.
C15_LoadReturnsWhatWasSaved ==
  (call.fn = "saveSchema" /\ Loaded) =>
    /\ "schema" \in DOMAIN result
    /\ result.schema = call.schema

\* A File with two comments, one of them with its code in another file, and no
\* line comment, was saved over an older mapping file and loaded.
C15_Witness ==
  /\ call.fn = "saveSchema" /\ Loaded
  /\ "schema" \in DOMAIN result
  /\ Len(result.schema.comments) = 2
  /\ result.schema.comments[2].codeRelativePath = SiblingUri
  /\ result.schema.lineComment = "null"

\* The persisted form of a valid File: objects with exactly their properties,
\* version 1, positions that are not negative, ranges with start <= end.
ExactProps(j, props) == IsJ("obj", j) /\ DOMAIN j.obj = props

ValidPosition(j) ==
  /\ ExactProps(j, {"line", "char"})
  /\ IsJ("num", j.obj.line) /\ j.obj.line.num >= 0
  /\ IsJ("num", j.obj.char) /\ j.obj.char.num >= 0

ValidRange(j) ==
  /\ ExactProps(j, {"start", "end"})
  /\ ValidPosition(j.obj.start)
  /\ ValidPosition(j.obj.end)
  /\ IsBeforeOrEqual(PositionOf(j.obj.start), PositionOf(j.obj.end))

ValidComment(j) ==
  /\ ExactProps(j, {"commentValue", "commentRange", "codeRelativePath", "codeRange",
                    "codeValue", "id"})
  /\ IsJ("str", j.obj.commentValue)
  /\ ValidRange(j.obj.commentRange)
  /\ IsJ("str", j.obj.codeRelativePath)
  /\ ValidRange(j.obj.codeRange)
  /\ IsJ("str", j.obj.codeValue)
  /\ IsJ("num", j.obj.id)

ValidDocument(bytes) ==
  /\ IsJ("json", bytes)
  /\ ExactProps(bytes.json, {"version", "configuration", "comments"})
  /\ bytes.json.obj.version = JNum(1)
  /\ ExactProps(bytes.json.obj.configuration, {"lineComment"})
  /\ \/ IsJ("null", bytes.json.obj.configuration.obj.lineComment)
     \/ IsJ("str", bytes.json.obj.configuration.obj.lineComment)
  /\ IsJ("arr", bytes.json.obj.comments)
  /\ \A i \in 1..Len(bytes.json.obj.comments.arr) :
       ValidComment(bytes.json.obj.comments.arr[i])

\* C18: loadSchema called on a mapping file that exists and does not hold a
\* valid File (a property missing, an unknown property, a version other than
\* 1, a malformed range) throws and returns no schema.
C18_InvalidDocumentIsRejected ==
  (call.fn = "loadSchema" /\ Loaded /\ Exists(disk[call.uri])
     /\ ~ValidDocument(disk[call.uri])) => Threw(result)

\* ------------------------------------------------------------ properties: storage paths
\* C16: for a source path under the root, schemaFileUriToSourceUri of the
\* storage path buildSchemaPath made is that source path, whatever the names in
\* the path.
C16_InverseReturnsSource ==
  (call.fn = "buildSchemaPath" /\ IsUnder(call.saveRoot, call.sourcePath)
     /\ "sourcePath" \in DOMAIN result) =>
    result.sourcePath = call.sourcePath

\* C17: buildSchemaPath called with a source path that is not under the save
\* root throws; it returns no storage path.
C17_OutsideRootThrows ==
  (call.fn = "buildSchemaPath" /\ ~IsPending
     /\ ~IsUnder(call.saveRoot, call.sourcePath)) => Threw(result)

\* ------------------------------------------------------------ properties: loading a root
\* The mapping file of u is missing or decodes.
Decodes(bytes) == ~Threw(loadSchema(bytes))

\* C19: when a root is opened, a source file whose mapping file decodes has
\* its mapping loaded, and getSchema for it succeeds, whatever the other
\* mapping files of the root hold.
C19_OtherFilesStillLoad ==
  (call.fn = "getSchemaRoot" /\ ~IsPending) =>
    \A u \in DOMAIN call.files :
      (Exists(call.files[u]) /\ Decodes(call.files[u])) =>
        /\ ~IsRejected(result.model)
        /\ result.model.schemaMap[u].schema = FileOf(call.files[u].json)
        /\ ~Threw(result.got[u])

\* ------------------------------------------------------------ properties: first save
\* C20: while a source file has no mapping file, a save's read of it yields the
\* hash EMPTY_SCHEMA_HASH, the entry the index makes for the file carries that
\* same hash, and the save's hash test passes: the save goes on to write.
C20_FirstSaveSucceeds ==
  [][/\ \A u \in Uris :
          (~Exists(disk[u]) /\ IsAbsent(schemaMap[u]) /\ ~IsAbsent(schemaMap'[u])) =>
            schemaMap'[u].hash = EMPTY_SCHEMA_HASH
     /\ \A t \in Tasks :
          (/\ tasks[t].pc \in {"load", "check"}
           /\ ~Exists(disk[tasks[t].uri])
           /\ tasks'[t] # tasks[t])
          => IF tasks[t].pc = "load"
             THEN tasks'[t].pc = "check" /\ tasks'[t].seen = EMPTY_SCHEMA_HASH
             ELSE tasks'[t].pc = "write"]_vars

\* A save that found no mapping file has written the first one and has put
\* its hash in the cache.
C20_Witness ==
  \E t \in Tasks :
    /\ tasks[t].pc = "publish"
    /\ tasks[t].seen = EMPTY_SCHEMA_HASH
    /\ Exists(disk[tasks[t].uri])
    /\ CachedHash(schemaMap, tasks[t].uri) = Md5(disk[tasks[t].uri])

\* ------------------------------------------------------------ properties: diagnostics
\* The call of publishDiagnostics has settled: its own validation returned or
\* threw, and no branch of the propagation is left to run.
PublishSettled == call.fn = "publishDiagnostics" /\ ~IsPending /\ result.left = {}

\* File u holds a comment whose code path resolves to the published document.
RefersToPublished(u) ==
  /\ ~IsAbsent(call.map[u])
  /\ \E i \in 1..Len(call.map[u].schema.comments) :
       resolveCodePath(u, call.map[u].schema.comments[i]) = call.uri

BlankLineAtTop == [range |-> Rng(Pos(0, 0), Pos(0, 0)), text |-> <<NL>>]

\* The range r one line further down.
OneLineDown(r) ==
  Rng(Pos(r.start.line + 1, r.start.char), Pos(r.end.line + 1, r.end.char))

\* The last event was the blank line, on a file with one comment whose comment
\* side lies on line 0 and whose code side lies on line 1, and whose stored
\* values were the text at those ranges when the line was typed.
ScenarioA ==
  /\ last.changes = <<BlankLineAtTop>>
  /\ ~IsAbsent(last.map[last.uri])
  /\ Len(last.map[last.uri].schema.comments) = 1
  /\ LET c == last.map[last.uri].schema.comments[1]
     IN /\ c.commentRange.start.line = 0 /\ c.commentRange.end.line = 0
        /\ c.codeRange.start.line = 1 /\ c.codeRange.end.line = 1
  /\ getDiagnostics(last.uri, last.doc, [u \in Sources |-> NoFile],
                    last.map[last.uri].schema).errors = <<>>

\* C22: with one comment pinned on line 0 and its code on line 1, both in
\* step with the document, a blank line
\* inserted at the start of line 0 moves start and end of both ranges one line
\* down, and validating the edited document against the moved comment yields
\* no finding.
C22_BlankLineShiftsBothRanges ==
  ScenarioA =>
    LET before == last.map[last.uri].schema.comments[1]
        after == schemaMap[last.uri].schema
    IN /\ Len(after.comments) = 1
       /\ after.comments[1].commentRange = OneLineDown(before.commentRange)
       /\ after.comments[1].codeRange = OneLineDown(before.codeRange)
       /\ getDiagnostics(last.uri, ApplyChanges(last.doc, last.changes, 1),
                         [u \in Sources |-> NoFile], after).errors = <<>>

\* The blank line was typed above a comment on "ab" with its code on "cd", and
\* the ranges now lie on lines 1 and 2 of the edited document.
C22_Witness ==
  /\ ScenarioA
  /\ doc[last.uri] = <<NL>> \o InitialText
  /\ schemaMap[last.uri].schema.comments[1].commentRange = Rng(Pos(1, 0), Pos(1, 2))
  /\ schemaMap[last.uri].schema.comments[1].codeRange = Rng(Pos(2, 0), Pos(2, 2))

\* ------------------------------------------------------------ properties: edit sequences
\* The range has no negative line or char, and its start is not after its end.
WellFormed(r) ==
  /\ r.start.line >= 0 /\ r.start.char >= 0
  /\ r.end.line >= 0 /\ r.end.char >= 0
  /\ IsBeforeOrEqual(r.start, r.end)

\* C23: after any sequence of edits, every tracked range of every file has
\* start <= end and no negative line or char.
C23_RangesStayWellFormed ==
  \A u \in Uris :
    ~IsAbsent(schemaMap[u]) =>
      \A i \in 1..Len(schemaMap[u].schema.comments) :
        /\ WellFormed(schemaMap[u].schema.comments[i].commentRange)
        /\ WellFormed(schemaMap[u].schema.comments[i].codeRange)

\* Two events have moved a code range: the first brought it up from line 1 to
\* line 0, the second moved it again.
C23_Witness ==
  /\ nEvents = 2
  /\ ~IsAbsent(schemaMap[last.uri])
  /\ Len(schemaMap[last.uri].schema.comments) = 1
  /\ last.map[last.uri].schema.comments[1].codeRange.start.line = 0
  /\ schemaMap[last.uri].schema.comments[1].codeRange #
       last.map[last.uri].schema.comments[1].codeRange

\* ------------------------------------------------------------ properties: commands
\* C24: after any sequence of link, remove and move-fix commands on a file, two
\* link commands under way at once included, no two comments of the file's
\* cached schema have the same id.
C24_IdsPairwiseDistinct ==
  \A u \in Uris :
    ~IsAbsent(schemaMap[u]) =>
      \A i, j \in 1..Len(schemaMap[u].schema.comments) :
        schemaMap[u].schema.comments[i].id = schemaMap[u].schema.comments[j].id => i = j

\* Two link commands are under way at once, neither has written yet, and the
\* file holds the comments of both.
C24_Witness ==
  /\ \A t \in Tasks : tasks[t].kind = "link" /\ tasks[t].pc \in {"load", "check"}
  /\ \E u \in Uris :
       /\ ~IsAbsent(schemaMap[u])
       /\ Len(schemaMap[u].schema.comments) >= 3

\* ------------------------------------------------------------ properties: ranges beyond the document
\* The position lies in the text: its line exists and its char is not past the
\* end of that line.
InDocument(text, p) ==
  /\ p.line >= 0 /\ p.line < LineCount(text)
  /\ p.char >= 0 /\ p.char <= LineLength(text, p.line)

\* The given side of comment c of the call has an end of its range outside the
\* document that holds it.
BeyondDocument(c, side) ==
  LET r == IF side = "comment" THEN c.commentRange ELSE c.codeRange
  IN ~InDocument(SideText(c, side), r.start) \/ ~InDocument(SideText(c, side), r.end)

\* getDiagnostics has returned the findings of the call.
DiagnosticsReturned == call.fn = "getDiagnostics" /\ ~IsPending /\ ~Threw(result)

\* C25: when the validation of a document returns, a comment with a range that
\* reaches beyond its document has a finding; reading such a range never
\* yields the stored value.
C25_RangeBeyondDocumentIsFound ==
  DiagnosticsReturned =>
    \A i \in 1..Len(call.schema.comments) :
      (\E side \in {"comment", "code"} : BeyondDocument(call.schema.comments[i], side))
        => FindingsOf(call.schema.comments[i]) # {}

\* ------------------------------------------------------------ properties: store errors
\* C26: a save started through the index that fails on the hash test rejects
\* the promise the caller of the operation holds, the document-save handler's
\* caller included; the save is not tried again.
C26_StoreErrorReachesCaller ==
  \A t \in Tasks : tasks[t].pc = "conflict" => tasks[t].returned = "rejected"

\* ------------------------------------------------------------ properties: document saves
\* The file's cached schema holds unsaved changes.
IsDirty(map, u) == getSchemaByUri(map, u)[u].hasUnsavedChanges

\* C27: when a document-save notification is handled, the mapping file's save
\* is started if and only if the file's cached schema holds unsaved changes;
\* for a clean file nothing is written.
C27_SaveStartedIffDirty ==
  [][\A t \in Tasks :
       (/\ tasks'[t].kind = "save"
        /\ tasks[t].pc \in {"idle", "queued"}
        /\ tasks'[t].pc \notin {"idle", "queued"})
       => tasks'[t].pc = (IF IsDirty(schemaMap, tasks'[t].uri) THEN "load" ELSE "publish")]_vars

\* ------------------------------------------------------------ properties: cached schema
\* The schema the cache holds for u: an empty one when u has no entry.
CachedSchema(map, u) == getSchemaByUri(map, u)[u].schema

\* C28: the cached schema of a file changes only in the step of an edit event
\* and in the step in which a save has succeeded; a command changes it through
\* its save alone, so a command whose save fails leaves it as it was.
C28_CacheChangesByEditOrSaveOnly ==
  [][\A u \in Uris :
       CachedSchema(schemaMap', u) # CachedSchema(schemaMap, u) =>
         \/ nEvents' # nEvents
         \/ \E t \in Tasks :
              tasks[t].uri = u /\ tasks[t].pc = "written" /\ tasks'[t].pc = "publish"]_vars

\* ------------------------------------------------------------ properties: guardIO
\* The function of the task has been invoked.
Started(task) ==
  task.pc \in {"load", "check", "write", "written", "publish", "done", "conflict"}

\* The promise guardIO returned for the task has settled.
Settled(task) == task.pc \in {"done", "conflict", "skipped"}

\* Task s was handed to guardIO before task t, under the same key.
SubmittedBefore(s, t) ==
  /\ s < t
  /\ tasks[s].kind = "save" /\ tasks[t].kind = "save"
  /\ tasks[s].uri = tasks[t].uri

\* C29: of two functions handed to guardIO under one key, the later one has not
\* been invoked as long as the earlier one has not settled.
C29_GuardedRunInOrder ==
  \A s, t \in Tasks :
    (SubmittedBefore(s, t) /\ Started(tasks[t])) => Settled(tasks[s])

\* The first of two guarded functions is writing the mapping file while the
\* second, chained on it, has not been invoked.
C29_Witness ==
  \E s, t \in Tasks :
    /\ SubmittedBefore(s, t)
    /\ tasks[s].pc = "write"
    /\ tasks[t].pc = "queued" /\ tasks[t].pred = s

\* C30: a function queued in guardIO is invoked when the functions before it
\* under its key have settled, whether they were fulfilled or rejected; its
\* promise never settles without the function having run.
C30_QueuedFunctionIsInvoked ==
  [][\A t \in Tasks :
       (tasks[t].pc = "queued" /\ tasks'[t].pc # "queued") => Started(tasks'[t])]_vars

\* ------------------------------------------------------------ properties: nested guardIO
\* Promise q came from a guardIO call made by the running function of another
\* promise under that promise's own key.
NestedUnderSameKey(q) ==
  tasks[q].by # 0 /\ tasks[q].key = tasks[tasks[q].by].key

Persisted(u) == IF Exists(disk[u]) THEN Parse(disk[u]) ELSE emptySchema

\* C32: while a file's cache entry is clean and no save of the file stands
\* between its read of the mapping file and its update of the cache, the cached
\* File is the persisted one; an edit made while a save is in flight is in the
\* bytes written or leaves the entry dirty.
C32_CleanCacheIsPersisted ==
  \A u \in Uris :
    (/\ ~IsAbsent(schemaMap[u])
     /\ ~schemaMap[u].hasUnsavedChanges
     /\ InStoreIO(u) = {})
    => schemaMap[u].schema = Persisted(u)

\* ------------------------------------------------------------ properties: edits across files
\* The edit changed the code range of a comment that file s stores and that is
\* pinned in the edited document.
CodeRangeChangedIn(s) ==
  /\ ~IsAbsent(call.map[s])
  /\ \E i \in 1..Len(call.map[s].schema.comments) :
       /\ resolveCodePath(s, call.map[s].schema.comments[i]) = call.uri
       /\ result.map[s].schema.comments[i].codeRange
            # call.map[s].schema.comments[i].codeRange

\* C33: when an edit of a document changes the code range of a comment stored
\* for another source file, that file's entry has unsaved changes afterwards.
C33_CrossFileChangeMarksDirty ==
  (call.fn = "onDidChangeTextDocument" /\ ~IsPending) =>
    \A s \in DOMAIN call.map :
      (s # call.uri /\ CodeRangeChangedIn(s)) => result.map[s].hasUnsavedChanges

\* ------------------------------------------------------------ properties: saves in a row
\* C34: as long as no other program writes the mapping files, no save fails on
\* the hash test: the hash a save reads from disk is the hash the save before
\* it left in the cache.
C34_NoMismatchWithoutOutsideWrite ==
  [][\A t \in Tasks :
       (tasks[t].pc = "check" /\ nExternal = 0) => tasks'[t].pc # "conflict"]_vars

\* ------------------------------------------------------------ properties: opening a root
\* C35: however the getSchemaRoot calls of a root interleave, at most one
\* promise of a model is created for the root, and every call that has passed
\* findSaveRoot awaits or has got that one.
C35_OneModelPerRoot ==
  /\ Len(schemaModels.promises) <= 1
  /\ \A k \in 1..Len(inbox) : inbox[k].stage # "findRoot" => inbox[k].promise = 1

\* As many calls as a run has, for both files of the root, have all got the one
\* model that was created.
C35_Witness ==
  /\ Len(schemaModels.promises) = 1
  /\ Len(inbox) = MaxRootCalls
  /\ \A k \in 1..Len(inbox) : inbox[k].stage = "resolved"
  /\ \E j, k \in 1..Len(inbox) : inbox[j].uri # inbox[k].uri

\* ------------------------------------------------------------ properties: propagation
PublishStarted == call.fn = "publishDiagnostics" /\ ~IsPending

\* C36: one publishDiagnostics call validates each referencing file at most
\* once, and the validation of a referencing file adds no file to those still
\* to be validated, also when the files' pins refer to each other in a cycle:
\* the propagation ends after at most one branch per file.
C36_PropagationEndsAfterOneRound ==
  PublishStarted =>
    /\ \A u \in Sources :
         /\ result.revalidated[u] <= 1
         /\ result.revalidated[u] = 1 => u \notin result.left
    /\ result.left \subseteq ReferencingFiles(result.map, call.uri)

\* Two files pin code in each other. The diagnostics of one were published and
\* the propagation is over: the other file was validated once, the document
\* itself was not validated again.
C36_Witness ==
  /\ PublishStarted
  /\ call.uri \in ReferencingFiles(result.map, SiblingUri)
  /\ SiblingUri \in ReferencingFiles(result.map, call.uri)
  /\ result.left = {}
  /\ result.revalidated[SiblingUri] = 1
  /\ result.revalidated[call.uri] = 0

\* ------------------------------------------------------------ properties: linking
\* The pair of ranges of the selection is the pair of one of the comments.
IsPinned(schema, sel) ==
  \E i \in 1..Len(schema.comments) :
    /\ schemaRangeToVscode(schema.comments[i].commentRange) = sel.commentRange
    /\ schemaRangeToVscode(schema.comments[i].codeRange) = sel.codeRange

\* A link command for file u starts in this step.
LinkStarts(u) ==
  \E t \in Tasks : tasks[t].kind # "link" /\ tasks'[t].kind = "link" /\ tasks'[t].uri = u

\* What a link command of the selection makes of the comments: as many
\* comments on the same ranges when the pair is pinned already, one more
\* comment, on the selection's ranges, when it is not.
LinkedAsOne(before, after, sel) ==
  IF IsPinned([comments |-> before], sel)
  THEN /\ Len(after) = Len(before)
       /\ \A i \in 1..Len(before) :
            /\ after[i].commentRange = before[i].commentRange
            /\ after[i].codeRange = before[i].codeRange
  ELSE /\ Len(after) = Len(before) + 1
       /\ SubSeq(after, 1, Len(before)) = before
       /\ schemaRangeToVscode(after[Len(after)].commentRange) = sel.commentRange
       /\ schemaRangeToVscode(after[Len(after)].codeRange) = sel.codeRange

\* C37: a link command on a pair of ranges that is already pinned leaves the
\* number of comments as it was, and on a pair not yet pinned adds exactly one
\* comment; linking the same pair again adds nothing.
C37_LinkingPinnedPairAddsNothing ==
  [][\A u \in Uris :
       LinkStarts(u) =>
         \E sel \in CommandSelections :
           LinkedAsOne(CommentsOf(schemaMap, u), CommentsOf(schemaMap', u), sel)]_vars

\* ------------------------------------------------------------ properties: move fixes
\* A move fix for file u is accepted in this step, in task slot t.
FixAccepted(u, t) ==
  tasks[t].kind # "fix" /\ tasks'[t].kind = "fix" /\ tasks'[t].uri = u

\* The comments after are the comments before with the one comment of the old
\* id replaced by the new comment.
ReplacedOne(before, after, fix) ==
  /\ Len(after) = Len(before)
  /\ \A i \in 1..Len(before) :
       after[i] = IF before[i].id = fix.oldCommentId THEN fix.newComment ELSE before[i]
  /\ Cardinality({i \in 1..Len(before) : before[i].id = fix.oldCommentId}) = 1

\* C38: an accepted move fix puts the new comment in the place of the comment
\* with the old comment's id and leaves every other comment as it was; when no
\* comment has the id the command fails, the comments of the cache stay as
\* they were and nothing is written.
C38_MoveFixReplacesOneComment ==
  [][\A u \in Uris : \A t \in Tasks :
       FixAccepted(u, t) =>
         IF tasks'[t].pc = "refused"
         THEN /\ CommentsOf(schemaMap', u) = CommentsOf(schemaMap, u)
              /\ disk' = disk
              /\ tasks'[t].returned = "rejected"
              /\ \E fix \in FixesOffered(u) :
                   ~HasComment([comments |-> CommentsOf(schemaMap, u)], fix.oldCommentId)
         ELSE \E fix \in FixesOffered(u) :
                ReplacedOne(CommentsOf(schemaMap, u), CommentsOf(schemaMap', u), fix)]_vars

\* A move fix was accepted on a file with two comments: the comment that had
\* moved is on its new range and the save of the fix is under way.
C38_Witness ==
  \E t \in Tasks : \E u \in Uris :
    /\ tasks[t].kind = "fix" /\ tasks[t].uri = u /\ tasks[t].pc = "load"
    /\ Len(CommentsOf(schemaMap, u)) = 2
    /\ CommentsOf(schemaMap, u)[1].commentRange = Rng(Pos(0, 1), Pos(0, 2))
    /\ CommentsOf(schemaMap, u)[1].commentValue = <<"b">>

====
